---- MODULE Spec2Model ----
(***************************************************************************)
(* A model of AIDocMaster's document auto-writer and paragraph store.      *)
(*                                                                         *)
(*   - AutoWriterAgent.run (backend/agent/auto_writer_agent.py): the       *)
(*     generator that streams status events while it drives the            *)
(*     outline -> write_section* -> compile graph.  One action per         *)
(*     resumption of the generator (from one yield to the next) and one    *)
(*     per graph node executed by the fallback workflow.invoke.            *)
(*   - build_outline as a function of the model's answer.                  *)
(*   - DocumentTools (backend/agent/tools.py): the paragraph store and     *)
(*     its five tools behind execute_tool.                                 *)
(*                                                                         *)
(* Eight specifications share the module: SpecRun, SpecOutline, SpecStore, *)
(* SpecSearch, SpecInsert, SpecParams, SpecIntent and SpecParse.  Each one *)
(* moves its own variables and leaves the others at their initial values;  *)
(* SpecSearch and SpecInsert both use s_in and s_out, the last three n_in  *)
(* and n_out.                                                              *)
(***************************************************************************)
EXTENDS Integers, Sequences, FiniteSets, TLC

VARIABLES
    \* ---- AutoWriterAgent.run ----
    pc,                 \* where the generator resumes next
    events,             \* every event yielded so far, in order
    timeline,           \* timeline[0..4].state
    stream_shape,       \* how workflow.stream keys the events it delivers
    calls,              \* gateway (llm.invoke) calls made so far
    failed,             \* "" or the stage whose gateway call raised
    paragraph_count,    \* parameters["paragraph_count"] (0 before extraction)
    wf_state,           \* the WriterState of the graph execution in progress
    executions,         \* graph executions started (stream, then invoke)
    section_index,      \* run's local section_index
    drafted_sections,   \* run's local drafted_sections
    compile_handled,    \* run's local compile_handled
    \* ---- build_outline as a function ----
    o_in,               \* [count, reply] handed to build_outline
    o_out,              \* "unset" or the outline it stored
    \* ---- DocumentTools ----
    paragraphs,         \* self.paragraphs
    document_content,   \* self.document_content, as the sequence of joined contents
    content_type,       \* self.content_type
    issued,             \* every id add_document_paragraph has returned so far
    result,             \* what the last execute_tool call returned
    \* ---- search_document_paragraphs and add_document_paragraph as functions ----
    s_in,               \* the store's paragraphs and the tool's arguments
    s_out,              \* [done, result]: what the tool returned
    \* ---- the functions of writer_intent.py ----
    n_in,               \* [kind, raw]: the model's response
    n_out               \* [done, by, raised, params]: what the call did and returned

runVars == <<pc, events, timeline, stream_shape, calls, failed, paragraph_count,
             wf_state, executions, section_index, drafted_sections, compile_handled>>
outlineVars == <<o_in, o_out>>
storeVars == <<paragraphs, document_content, content_type, issued, result>>
searchVars == <<s_in, s_out>>
paramVars == <<n_in, n_out>>
vars == <<runVars, outlineVars, storeVars, searchVars, paramVars>>

(***************************************************************************)
(* Bounds of the model and constants of the program.                       *)
(***************************************************************************)
\* writer_intent.py:87-90: paragraph_count is clamped to 3..12.
MinParagraphs == 3
MaxParagraphs == 12
\* The largest paragraph_count a modelled run is started with.
MaxRunCount == 4
\* The longest model answer to the outline call that SpecOutline enumerates.
MaxItems == 4
\* The most elements of a "keywords" list in the model's response.
MaxKeywords == 2
\* The most paragraphs of a store that SpecInsert inserts into.
MaxInsertParas == 3
\* The most paragraphs of a store that SpecSearch searches.
MaxSearchParas == 2
\* The most paragraphs the modelled store holds.
MaxParas == 2

Min(a, b) == IF a < b THEN a ELSE b
Max(a, b) == IF a > b THEN a ELSE b

\* Python's None where the code lets it through as a value.
None == "None"

(***************************************************************************)
(* Sequence helpers.                                                       *)
(***************************************************************************)
RECURSIVE SeqsUpTo(_, _)
\* All sequences over S of length at most n.
SeqsUpTo(S, n) ==
    IF n = 0 THEN {<<>>}
    ELSE LET shorter == SeqsUpTo(S, n - 1)
         IN  shorter \cup {Append(q, x) : q \in {r \in shorter : Len(r) = n - 1}, x \in S}

Take(q, n) == SubSeq(q, 1, Min(Len(q), n))

(***************************************************************************)
(* build_outline (auto_writer_agent.py:78-127).                            *)
(*                                                                         *)
(* The model's answer is described by what parse_json_block makes of it    *)
(* and, for a list, by the shape of each element.  An element is either    *)
(* not an object, or an object whose "title" and "summary" are each        *)
(* absent, null, the empty string or a text.                               *)
(***************************************************************************)
FieldShapes == {"absent", "null", "empty", "text"}

OutlineItems ==
    { [isdict |-> FALSE, title |-> "absent", summary |-> "absent"],
      [isdict |-> TRUE,  title |-> "text",   summary |-> "text"],
      [isdict |-> TRUE,  title |-> "absent", summary |-> "null"],
      [isdict |-> TRUE,  title |-> "null",   summary |-> "text"],
      [isdict |-> TRUE,  title |-> "empty",  summary |-> "empty"] }

\* "unparseable": empty text or text json.loads rejects;  "scalar": JSON that is
\* neither a list nor an object;  "array": a bare list;  "wrapped": an object
\* whose "outline" is a list;  "object": any other object.
OutlineReplyKinds == {"unparseable", "scalar", "array", "wrapped", "object"}

OutlineReplies(maxlen) ==
    { [kind |-> k, items |-> <<>>] : k \in {"unparseable", "scalar", "object"} }
    \cup { [kind |-> k, items |-> q] : k \in {"array", "wrapped"},
                                       q \in SeqsUpTo(OutlineItems, maxlen) }

\* parse_json_block (writer_intent.py:36-64) on the outline answer: text it
\* cannot parse becomes the empty object.
parse_json_block(reply) ==
    CASE reply.kind = "unparseable" -> [type |-> "dict", has_outline |-> FALSE, items |-> <<>>]
      [] reply.kind = "scalar"      -> [type |-> "other", has_outline |-> FALSE, items |-> <<>>]
      [] reply.kind = "array"       -> [type |-> "list", has_outline |-> FALSE, items |-> reply.items]
      [] reply.kind = "wrapped"     -> [type |-> "dict", has_outline |-> TRUE, items |-> reply.items]
      [] OTHER                      -> [type |-> "dict", has_outline |-> FALSE, items |-> <<>>]

\* params["topic"], and the texts the model put at position i of its list.
Topic == "topic"
ModelTitle(i) == "T" \o ToString(i)
ModelSummary(i) == "S" \o ToString(i)

\* f"段落 {n}": the prefix is written in ASCII here, the number as the code formats it.
PlaceholderTitle(n) == "Section " \o ToString(n)

\* dict.get(key, default) on a field of the given shape.
GetField(shape, text, default) ==
    CASE shape = "absent" -> default
      [] shape = "null"   -> None
      [] shape = "empty"  -> ""
      [] OTHER            -> text

\* x or y
OrElse(x, y) == IF x = None \/ x = "" THEN y ELSE x

\* auto_writer_agent.py:100-104 / 106-110: one entry per element of the list.
OutlineEntry(item, i) ==
    [ title   |-> IF item.isdict
                  THEN GetField(item.title, ModelTitle(i), PlaceholderTitle(i))
                  ELSE PlaceholderTitle(i),
      summary |-> OrElse(IF item.isdict
                         THEN GetField(item.summary, ModelSummary(i), None)
                         ELSE Topic,
                         Topic) ]

\* auto_writer_agent.py:112-116
DefaultOutline(section_count) ==
    [i \in 1..section_count |-> [title |-> PlaceholderTitle(i), summary |-> Topic]]

\* auto_writer_agent.py:118-123.  extend() consumes a generator, so len(outline)
\* in the title is read while the list grows: entry idx is numbered
\* (len + idx) + idx + 1.
PadOutline(outline, section_count) ==
    IF Len(outline) < section_count
    THEN outline \o [idx1 \in 1..(section_count - Len(outline)) |->
                        [title   |-> PlaceholderTitle((Len(outline) + (idx1 - 1)) + (idx1 - 1) + 1),
                         summary |-> Topic]]
    ELSE outline

\* auto_writer_agent.py:125: outline[:section_count]
TruncateOutlineNot(outline, section_count) == outline

TruncateOutline(outline, section_count) == Take(outline, section_count)

build_outline(section_count, reply) ==
    LET payload == parse_json_block(reply)
        listed  == IF payload.type = "list" \/ (payload.type = "dict" /\ payload.has_outline)
                   THEN [i \in 1..Len(payload.items) |-> OutlineEntry(payload.items[i], i)]
                   ELSE <<>>
        nonempty == IF listed = <<>> THEN DefaultOutline(section_count) ELSE listed
    IN  TruncateOutline(PadOutline(nonempty, section_count), section_count)

(***************************************************************************)
(* The writer graph (auto_writer_agent.py:65-249).                         *)
(*                                                                         *)
(* A section's content is the gateway's text after strip(), kept as its    *)
(* lines.  A title is a string.                                            *)
(***************************************************************************)
\* The texts a drafting call may return: the empty text, and a text of two
\* paragraphs separated by a blank line.
Texts == { <<"">>, <<"a", " ", "b">> }

\* str.strip() of one line of a text.
StripLine(l) == IF l = " " THEN "" ELSE l

RECURSIVE JoinStrings(_)
\* "".join(parts)
JoinStrings(parts) ==
    IF parts = <<>> THEN "" ELSE Head(parts) \o JoinStrings(Tail(parts))

RECURSIVE ConcatAll(_)
ConcatAll(qs) == IF qs = <<>> THEN <<>> ELSE Head(qs) \o ConcatAll(Tail(qs))

\* auto_writer_agent.py:220-228
SectionHtmlParts(section) ==
    <<"<h2>" \o section.title \o "</h2>">>
    \o [i \in 1..Len(SelectSeq(section.content, LAMBDA l : StripLine(l) # "")) |->
          "<p>" \o StripLine(SelectSeq(section.content, LAMBDA l : StripLine(l) # "")[i]) \o "</p>"]

build_html_from_sections(sections) ==
    JoinStrings(ConcatAll([i \in 1..Len(sections) |-> SectionHtmlParts(sections[i])]))

RECURSIVE StripBlankLines(_)
\* str.strip() of a text kept as lines: blank lines at either end go.
StripBlankLines(ls) ==
    IF ls = <<>> THEN <<>>
    ELSE IF StripLine(ls[Len(ls)]) = "" THEN StripBlankLines(SubSeq(ls, 1, Len(ls) - 1))
    ELSE IF StripLine(ls[1]) = "" THEN StripBlankLines(Tail(ls))
    ELSE ls

\* auto_writer_agent.py:205-210 (and 393-396): "## title\n\ncontent\n" per
\* section, joined by "\n", stripped; kept as the lines of the result.
build_markdown(sections) ==
    StripBlankLines(ConcatAll([i \in 1..Len(sections) |->
        <<"## " \o sections[i].title, "">> \o sections[i].content \o <<"">>]))

operator_add_prepend(old, update) == update \o old

\* operator.add, the reducer declared for completed_sections (line 70).
operator_add(old, update) == old \o update

\* run's initial_state (lines 306-312), with the node the graph runs next.
InitialState ==
    [ node                   |-> "outline",
      outline                |-> <<>>,
      completed_sections     |-> <<>>,
      final_article_markdown |-> <<>>,
      final_article_html     |-> "",
      compiled               |-> FALSE,
      writes                 |-> 0 ]

\* auto_writer_agent.py:174-177
should_continue_writing_off_by_one(st) ==
    IF Len(st.completed_sections) <= Len(st.outline) THEN "continue" ELSE "done"

should_continue_writing(st) ==
    IF Len(st.completed_sections) < Len(st.outline) THEN "continue" ELSE "done"

\* The outline node and the edge outline -> write_section.  The node returns
\* the whole state, so its completed_sections go through the reducer.
OutlineNode(st, section_count, reply) ==
    [st EXCEPT !.outline = build_outline(section_count, reply),
               !.completed_sections = operator_add(@, @),
               !.node = "write_section"]

\* write_section (lines 130-171): past the end of the outline it returns the
\* state it was given, without a gateway call.
WriteSectionCallsGateway(st) == Len(st.completed_sections) < Len(st.outline)

\* The write_section node and its conditional edge.
WriteSectionNode(st, text) ==
    LET update == IF WriteSectionCallsGateway(st)
                  THEN << [title   |-> st.outline[Len(st.completed_sections) + 1].title,
                           content |-> text] >>
                  ELSE st.completed_sections
        merged == [st EXCEPT !.completed_sections = operator_add(@, update),
                             !.writes = @ + 1]
    IN  [merged EXCEPT !.node = IF should_continue_writing(merged) = "continue"
                                THEN "write_section" ELSE "compile"]

CompileNodeAfterReducer(st) ==
    [st EXCEPT !.final_article_markdown =
                   build_markdown(operator_add(st.completed_sections, st.completed_sections)),
               !.final_article_html =
                   build_html_from_sections(operator_add(st.completed_sections,
                                                         st.completed_sections)),
               !.compiled = TRUE,
               !.completed_sections = operator_add(@, @),
               !.node = "end"]

\* compile_article (lines 201-217) and the edge compile -> END.  It too returns
\* the whole state.
CompileNode(st) ==
    [st EXCEPT !.final_article_markdown = build_markdown(st.completed_sections),
               !.final_article_html = build_html_from_sections(st.completed_sections),
               !.compiled = TRUE,
               !.completed_sections = operator_add(@, @),
               !.node = "end"]

(***************************************************************************)
(* AutoWriterAgent.run (auto_writer_agent.py:267-482).                     *)
(***************************************************************************)
Stages == 0..4

\* lines 273-279
InitialTimeline ==
    [i \in Stages |-> IF i = 0 THEN "active" ELSE "upcoming"]

BlankEvent ==
    [ type |-> "", phase |-> "", current |-> 0, total |-> 0, title |-> "",
      content |-> <<>>, html |-> "", markdown |-> <<>>, reason |-> "" ]

\* _status_event (lines 259-265)
StatusEvent(phase) == [BlankEvent EXCEPT !.type = "status", !.phase = phase]

\* lines 285-289: the refusal, carrying the classifier's reason
RefusalEvent(reason) == [BlankEvent EXCEPT !.type = "error", !.reason = reason]

\* lines 478-482: the event of the outer except clause
FailureEvent == [BlankEvent EXCEPT !.type = "error"]

\* lines 297-300
ParametersEvent(count) == [BlankEvent EXCEPT !.type = "parameters", !.total = count]

\* lines 370-376
SectionProgressEvent(index, count, section) ==
    [BlankEvent EXCEPT !.type = "section_progress", !.current = index, !.total = count,
                       !.title = section.title, !.content = section.content]

\* lines 377-380
ArticleDraftEvent(sections) ==
    [BlankEvent EXCEPT !.type = "article_draft", !.html = build_html_from_sections(sections)]

\* lines 400-407, 428-435, 459-466
CompleteEvent(markdown, html) ==
    [BlankEvent EXCEPT !.type = "complete", !.markdown = markdown, !.html = html]

\* How workflow.stream delivers an execution to the loop of lines 320-327.
\* The loop reads each event as {node name: that node's return value}; the call
\* asks for stream_mode="values", under which the library delivers the whole
\* state after every step, keyed by the state's fields.  Which of the two the
\* loop gets depends on the installed library, so both are modelled.
StreamShapes == {"by_node", "by_state"}

\* The answers to the outline call a run is given: nothing usable, one entry
\* too few, one entry too many.
FullItem == [isdict |-> TRUE, title |-> "text", summary |-> "text"]
RunOutlineReplies(count) ==
    { [kind |-> "unparseable", items |-> <<>>],
      [kind |-> "array",   items |-> [i \in 1..(count - 1) |-> FullItem]],
      [kind |-> "wrapped", items |-> [i \in 1..(count + 1) |-> FullItem]] }

\* The paragraph counts extract_writer_parameters hands to a run.
RunCounts == MinParagraphs..Min(MaxParagraphs, MaxRunCount)

\* The classifier's reason when it gives one.
Reasons == {"not a writing task"}

InitRun ==
    /\ pc = "start"
    /\ events = <<>>
    /\ timeline = InitialTimeline
    /\ stream_shape \in StreamShapes
    /\ calls = 0
    /\ failed = ""
    /\ paragraph_count = 0
    /\ wf_state = InitialState
    /\ executions = 0
    /\ section_index = 0
    /\ drafted_sections = <<>>
    /\ compile_handled = FALSE

Emit(e) == events' = Append(events, e)

\* A gateway call raised inside the outer try: lines 474-482.
Raise(stage) ==
    /\ failed' = stage
    /\ Emit(FailureEvent)
    /\ pc' = "done"

\* line 281
RunStart ==
    /\ pc = "start"
    /\ Emit(StatusEvent("intent"))
    /\ pc' = "intent"
    /\ UNCHANGED <<timeline, stream_shape, calls, failed, paragraph_count, wf_state,
                   executions, section_index, drafted_sections, compile_handled>>

RunIntentGoesOn ==
    /\ pc = "intent"
    /\ calls' = calls + 1
    /\ \/ Raise("intent") /\ UNCHANGED timeline
       \/ \E reason \in Reasons :
            /\ Emit(RefusalEvent(reason))
            /\ pc' = "params"
            /\ UNCHANGED <<timeline, failed>>
       \/ /\ timeline' = [timeline EXCEPT ![0] = "complete", ![1] = "active"]
          /\ Emit(StatusEvent("parameterizing"))
          /\ pc' = "params"
          /\ UNCHANGED failed
    /\ UNCHANGED <<stream_shape, paragraph_count, wf_state, executions, section_index,
                   drafted_sections, compile_handled>>

\* lines 282-294: analyze_intent, then the refusal or the parameterizing status
RunIntent ==
    /\ pc = "intent"
    /\ calls' = calls + 1
    /\ \/ Raise("intent") /\ UNCHANGED timeline
       \/ \E reason \in Reasons :
            /\ Emit(RefusalEvent(reason))
            /\ pc' = "done"
            /\ UNCHANGED <<timeline, failed>>
       \/ /\ timeline' = [timeline EXCEPT ![0] = "complete", ![1] = "active"]
          /\ Emit(StatusEvent("parameterizing"))
          /\ pc' = "params"
          /\ UNCHANGED failed
    /\ UNCHANGED <<stream_shape, paragraph_count, wf_state, executions, section_index,
                   drafted_sections, compile_handled>>

\* lines 296-300: extract_writer_parameters, then the parameters event
RunParameters ==
    /\ pc = "params"
    /\ calls' = calls + 1
    /\ \/ Raise("params") /\ UNCHANGED paragraph_count
       \/ \E count \in RunCounts :
            /\ paragraph_count' = count
            /\ Emit(ParametersEvent(count))
            /\ pc' = "outlining"
            /\ UNCHANGED failed
    /\ UNCHANGED <<timeline, stream_shape, wf_state, executions, section_index,
                   drafted_sections, compile_handled>>

\* lines 302-318: the outlining status; the loop's locals are set after it
RunOutlining ==
    /\ pc = "outlining"
    /\ timeline' = [timeline EXCEPT ![1] = "complete", ![2] = "active"]
    /\ Emit(StatusEvent("outlining"))
    /\ pc' = "stream"
    /\ wf_state' = InitialState
    /\ section_index' = 0
    /\ drafted_sections' = <<>>
    /\ compile_handled' = FALSE
    /\ UNCHANGED <<stream_shape, calls, failed, paragraph_count, executions>>

\* The generator is inside the for loop of line 320 and its next resumption
\* asks workflow.stream for the next event.  Resuming after the complete event
\* of line 400 first runs line 408.
InStream == pc \in {"stream", "after_complete"}
HandledOnResume == compile_handled \/ pc = "after_complete"

\* lines 336-343: what the loop does with a key "outline".  Under by_state every
\* state delivered after the outline node has that key.
OutlineBranch ==
    /\ timeline' = [timeline EXCEPT ![2] = "complete", ![3] = "active"]
    /\ Emit(StatusEvent("writing"))
    /\ pc' = "stream"

\* The outline node runs and its event is handled (lines 336-343).
StreamOutline ==
    /\ InStream
    /\ wf_state.node = "outline"
    /\ executions' = executions + 1
    /\ calls' = calls + 1
    /\ compile_handled' = HandledOnResume
    /\ \/ Raise("outline") /\ UNCHANGED <<timeline, wf_state>>
       \/ \E reply \in RunOutlineReplies(paragraph_count) :
            /\ wf_state' = OutlineNode(wf_state, paragraph_count, reply)
            /\ OutlineBranch
            /\ UNCHANGED failed
    /\ UNCHANGED <<stream_shape, paragraph_count, section_index, drafted_sections>>

\* line 363
is_last_section_early(index, count) == index >= count - 1

is_last_section(index, count) == index >= count

\* The write_section node runs; by_node its event reaches lines 344-369.
StreamWriteSection ==
    /\ InStream
    /\ wf_state.node = "write_section"
    /\ compile_handled' = HandledOnResume
    /\ calls' = IF WriteSectionCallsGateway(wf_state) THEN calls + 1 ELSE calls
    /\ \/ /\ WriteSectionCallsGateway(wf_state)
          /\ Raise("draft")
          /\ UNCHANGED <<timeline, wf_state, section_index, drafted_sections>>
       \/ \E text \in Texts :
            /\ wf_state' = WriteSectionNode(wf_state, text)
            /\ UNCHANGED failed
            /\ IF stream_shape = "by_state"
               THEN OutlineBranch /\ UNCHANGED <<section_index, drafted_sections>>
               ELSE /\ timeline' = [timeline EXCEPT ![2] = "complete", ![3] = "active"]
                    /\ section_index' = section_index + 1
                    /\ drafted_sections' =
                         Append(drafted_sections,
                                wf_state'.completed_sections[Len(wf_state'.completed_sections)])
                    /\ IF section_index' = 1
                       THEN Emit(StatusEvent("writing")) /\ pc' = "progress_status"
                       ELSE Emit(StatusEvent("writing")) /\ pc' = "section_progress"
    /\ UNCHANGED <<stream_shape, paragraph_count, executions>>

\* lines 365-369, after the status of lines 356-360
RunProgressStatus ==
    /\ pc = "progress_status"
    /\ Emit(StatusEvent("writing"))
    /\ pc' = "section_progress"
    /\ UNCHANGED <<timeline, stream_shape, calls, failed, paragraph_count, wf_state,
                   executions, section_index, drafted_sections, compile_handled>>

\* lines 370-376
RunSectionProgress ==
    /\ pc = "section_progress"
    /\ Emit(SectionProgressEvent(section_index, paragraph_count,
                                 drafted_sections[Len(drafted_sections)]))
    /\ pc' = "article_draft"
    /\ UNCHANGED <<timeline, stream_shape, calls, failed, paragraph_count, wf_state,
                   executions, section_index, drafted_sections, compile_handled>>

\* lines 377-383
RunArticleDraft ==
    /\ pc = "article_draft"
    /\ Emit(ArticleDraftEvent(drafted_sections))
    /\ pc' = IF is_last_section(section_index, paragraph_count) THEN "shortcut" ELSE "stream"
    /\ UNCHANGED <<timeline, stream_shape, calls, failed, paragraph_count, wf_state,
                   executions, section_index, drafted_sections, compile_handled>>

\* lines 384-398: the last section's shortcut, up to its delivering status
RunShortcutDelivering ==
    /\ pc = "shortcut"
    /\ timeline' = [timeline EXCEPT ![3] = "complete", ![4] = "active"]
    /\ Emit(StatusEvent("delivering"))
    /\ pc' = "shortcut_complete"
    /\ UNCHANGED <<stream_shape, calls, failed, paragraph_count, wf_state,
                   executions, section_index, drafted_sections, compile_handled>>

\* lines 399-407
RunShortcutComplete ==
    /\ pc = "shortcut_complete"
    /\ timeline' = [timeline EXCEPT ![4] = "complete"]
    /\ Emit(CompleteEvent(build_markdown(drafted_sections),
                          build_html_from_sections(drafted_sections)))
    /\ pc' = "after_complete"
    /\ UNCHANGED <<stream_shape, calls, failed, paragraph_count, wf_state,
                   executions, section_index, drafted_sections, compile_handled>>

\* The compile node runs; by_node its event reaches lines 409-424.
StreamCompile ==
    /\ InStream
    /\ wf_state.node = "compile"
    /\ wf_state' = CompileNode(wf_state)
    /\ IF stream_shape = "by_state"
       THEN OutlineBranch /\ compile_handled' = HandledOnResume
       ELSE /\ compile_handled' = TRUE
            /\ timeline' = [timeline EXCEPT ![3] = "complete", ![4] = "active"]
            /\ Emit(StatusEvent("delivering"))
            /\ pc' = "compile_complete"
    /\ UNCHANGED <<stream_shape, calls, failed, paragraph_count, executions,
                   section_index, drafted_sections>>

\* lines 426-436
RunCompileComplete ==
    /\ pc = "compile_complete"
    /\ timeline' = [timeline EXCEPT ![4] = "complete"]
    /\ Emit(CompleteEvent(wf_state.final_article_markdown, wf_state.final_article_html))
    /\ pc' = "stream"
    /\ UNCHANGED <<stream_shape, calls, failed, paragraph_count, wf_state,
                   executions, section_index, drafted_sections, compile_handled>>

\* The stream is exhausted and a compile was handled: lines 439, 472.
StreamEnd ==
    /\ InStream
    /\ wf_state.node = "end"
    /\ HandledOnResume
    /\ compile_handled' = TRUE
    /\ pc' = "done"
    /\ UNCHANGED <<events, timeline, stream_shape, calls, failed, paragraph_count,
                   wf_state, executions, section_index, drafted_sections>>

\* A gateway call raised inside workflow.invoke: lines 467-472 log it and the
\* generator returns.
Swallow(stage) ==
    /\ failed' = stage
    /\ pc' = "done"
    /\ UNCHANGED events

\* The stream is exhausted and no compile was handled: lines 439-443 run the
\* graph again from initial_state.  Its outline node:
InvokeOutline ==
    /\ InStream
    /\ wf_state.node = "end"
    /\ ~HandledOnResume
    /\ executions' = executions + 1
    /\ calls' = calls + 1
    /\ \/ Swallow("outline") /\ UNCHANGED wf_state
       \/ \E reply \in RunOutlineReplies(paragraph_count) :
            /\ wf_state' = OutlineNode(InitialState, paragraph_count, reply)
            /\ pc' = "invoke"
            /\ UNCHANGED <<events, failed>>
    /\ UNCHANGED <<timeline, stream_shape, paragraph_count, section_index,
                   drafted_sections, compile_handled>>

\* workflow.invoke's write_section node
InvokeWriteSection ==
    /\ pc = "invoke"
    /\ wf_state.node = "write_section"
    /\ calls' = IF WriteSectionCallsGateway(wf_state) THEN calls + 1 ELSE calls
    /\ \/ /\ WriteSectionCallsGateway(wf_state)
          /\ Swallow("draft")
          /\ UNCHANGED wf_state
       \/ \E text \in Texts :
            /\ wf_state' = WriteSectionNode(wf_state, text)
            /\ UNCHANGED <<events, failed, pc>>
    /\ UNCHANGED <<timeline, stream_shape, paragraph_count, executions, section_index,
                   drafted_sections, compile_handled>>

\* workflow.invoke's compile node, then lines 444-458
InvokeCompile ==
    /\ pc = "invoke"
    /\ wf_state.node = "compile"
    /\ wf_state' = CompileNode(wf_state)
    /\ timeline' = [timeline EXCEPT ![3] = "complete", ![4] = "complete"]
    /\ Emit(StatusEvent("delivering"))
    /\ pc' = "fallback_complete"
    /\ UNCHANGED <<stream_shape, calls, failed, paragraph_count, executions,
                   section_index, drafted_sections, compile_handled>>

\* lines 459-466
RunFallbackComplete ==
    /\ pc = "fallback_complete"
    /\ Emit(CompleteEvent(wf_state.final_article_markdown, wf_state.final_article_html))
    /\ pc' = "done"
    /\ UNCHANGED <<timeline, stream_shape, calls, failed, paragraph_count, wf_state,
                   executions, section_index, drafted_sections, compile_handled>>

(***************************************************************************)
(* build_outline applied to one answer.                                    *)
(***************************************************************************)
OutlineIdle ==
    /\ o_in = [count |-> 0, reply |-> [kind |-> "unparseable", items |-> <<>>]]
    /\ o_out = [done |-> FALSE, outline |-> <<>>]

InitOutline ==
    /\ o_in \in [count : MinParagraphs..MaxParagraphs, reply : OutlineReplies(MaxItems)]
    /\ o_out = [done |-> FALSE, outline |-> <<>>]

\* line 125: state["outline"] = outline[:section_count]
BuildOutline ==
    /\ ~o_out.done
    /\ o_out' = [done |-> TRUE, outline |-> build_outline(o_in.count, o_in.reply)]
    /\ UNCHANGED o_in

(***************************************************************************)
(* Strings of the paragraph store, kept as sequences of characters.        *)
(***************************************************************************)
IsSpace(c) == c \in {" ", "\n"}

\* str.lower(), character by character
LowerChar(c) ==
    CASE c = "A" -> "a" [] c = "B" -> "b" [] c = "H" -> "h"
      [] c = "P" -> "p" [] c = "R" -> "r" [] OTHER -> c
Lower(s) == [i \in 1..Len(s) |-> LowerChar(s[i])]

RECURSIVE Strip(_)
\* str.strip()
Strip(s) ==
    IF s = <<>> THEN <<>>
    ELSE IF IsSpace(s[1]) THEN Strip(Tail(s))
    ELSE IF IsSpace(s[Len(s)]) THEN Strip(SubSeq(s, 1, Len(s) - 1))
    ELSE s

\* s.startswith(prefix)
StartsWith(s, prefix) ==
    Len(prefix) <= Len(s) /\ SubSeq(s, 1, Len(prefix)) = prefix

\* sub in s
Contains(s, sub) ==
    \E i \in 1..(Len(s) - Len(sub) + 1) : SubSeq(s, i, i + Len(sub) - 1) = sub

\* The position of the first c in s at or after position from, or 0.
IndexFrom(s, c, from) ==
    IF \E i \in from..Len(s) : s[i] = c
    THEN CHOOSE i \in from..Len(s) : s[i] = c /\ \A j \in from..(i - 1) : s[j] # c
    ELSE 0

RECURSIVE StripTagsFrom(_, _)
\* re.sub(r'<[^>]+>', '', s) from position i on: a "<" opens a tag when the
\* next ">" lies at least two characters further.
StripTagsFrom(s, i) ==
    IF i > Len(s) THEN <<>>
    ELSE IF s[i] = "<" /\ IndexFrom(s, ">", i + 1) > i + 1
         THEN StripTagsFrom(s, IndexFrom(s, ">", i + 1) + 1)
         ELSE <<s[i]>> \o StripTagsFrom(s, i + 1)

PlainTextNot(content) == content

\* re.sub(r'<[^>]+>', '', content).strip()
PlainText(content) == Strip(StripTagsFrom(content, 1))

RECURSIVE JoinWith(_, _)
\* sep.join(parts)
JoinWith(parts, sep) ==
    IF parts = <<>> THEN <<>>
    ELSE IF Len(parts) = 1 THEN parts[1]
    ELSE parts[1] \o sep \o JoinWith(Tail(parts), sep)

RECURSIVE SplitOn(_, _)
\* s.split(c) for a single character c
SplitOn(s, c) ==
    IF IndexFrom(s, c, 1) = 0 THEN <<s>>
    ELSE <<SubSeq(s, 1, IndexFrom(s, c, 1) - 1)>>
         \o SplitOn(SubSeq(s, IndexFrom(s, c, 1) + 1, Len(s)), c)

RECURSIVE Digits(_)
\* str(n) for n >= 0
Digits(n) == IF n < 10 THEN <<ToString(n)>> ELSE Digits(n \div 10) \o <<ToString(n % 10)>>

\* f'para-{n}'
ParaId(n) == <<"p", "a", "r", "a", "-">> \o Digits(n)

(***************************************************************************)
(* DocumentTools (tools.py).  A paragraph is [id, index, content, text].   *)
(***************************************************************************)
Paragraph(id, index, content, text) ==
    [id |-> id, index |-> index, content |-> content, text |-> text]

RECURSIVE ParseParts(_, _)
\* tools.py:61-82, over the pieces re.split leaves.  The documents parsed here
\* are lines that each hold one paragraph-level element or one run of bare
\* text, on which the split falls at the line breaks.
ParseParts(parts, index) ==
    IF parts = <<>> THEN <<>>
    ELSE LET part == Strip(Head(parts))
         IN  IF part # <<>> /\ ~StartsWith(part, <<"<">>)
             THEN <<Paragraph(ParaId(index), index, <<"<", "p", ">">> \o part \o <<"<", "/", "p", ">">>, part)>>
                  \o ParseParts(Tail(parts), index + 1)
             ELSE IF part # <<>> /\ (StartsWith(part, <<"<", "p">>) \/ StartsWith(part, <<"<", "h">>)
                                     \/ StartsWith(part, <<"<", "l", "i">>))
                                 /\ PlainText(Head(parts)) # <<>>
             THEN <<Paragraph(ParaId(index), index, part, PlainText(Head(parts)))>>
                  \o ParseParts(Tail(parts), index + 1)
             ELSE ParseParts(Tail(parts), index)

\* tools.py:53-83: with nothing recognised, the whole text is paragraph para-0.
html_to_paragraphs(html) ==
    LET parsed == ParseParts(SplitOn(html, "\n"), 0)
    IN  IF parsed # <<>> THEN parsed
        ELSE <<Paragraph(ParaId(0), 0, html, PlainText(html))>>

RECURSIVE SortByIndex(_)
\* sorted(paragraphs, key=index): stable
SortByIndex(ps) ==
    IF ps = <<>> THEN <<>>
    ELSE LET first == CHOOSE i \in 1..Len(ps) :
                         /\ \A j \in 1..Len(ps) : ps[i].index <= ps[j].index
                         /\ \A j \in 1..(i - 1) : ps[j].index # ps[i].index
         IN  <<ps[first]>>
             \o SortByIndex(SubSeq(ps, 1, first - 1) \o SubSeq(ps, first + 1, Len(ps)))

\* tools.py:45-51
paragraphs_to_html(ps) ==
    IF ps = <<>> THEN <<>>
    ELSE JoinWith([i \in 1..Len(ps) |-> SortByIndex(ps)[i].content], <<"\n">>)

\* "Ensure paragraphs are loaded" (tools.py:206-207, 349-350, 478-479, 515-516,
\* 569-570)
EnsureLoaded(ps, doc, ctype) ==
    IF ctype = "html" /\ ps = <<>> THEN html_to_paragraphs(doc) ELSE ps

\* The "Re-index all paragraphs" loops (tools.py:532-533, 596-597)
ReindexNot(ps) == ps

Reindex(ps) == [i \in 1..Len(ps) |-> [ps[i] EXCEPT !.index = i - 1]]

\* list.insert(index, x): the position, counted from 0, x ends up at
InsertPosition(n, index) ==
    IF index < 0 THEN Max(0, n + index) ELSE Min(index, n)

InsertAtEnd(ps, index, x) == Append(ps, x)

InsertAt(ps, index, x) ==
    LET pos == InsertPosition(Len(ps), index)
    IN  SubSeq(ps, 1, pos) \o <<x>> \o SubSeq(ps, pos + 1, Len(ps))

RemoveAtUpTo(ps, i) == SubSeq(ps, i + 1, Len(ps))

\* list.pop(i) for a position counted from 1
RemoveAt(ps, i) == SubSeq(ps, 1, i - 1) \o SubSeq(ps, i + 1, Len(ps))

IdsOfButFirst(ps) == [i \in 1..(Len(ps) - 1) |-> ps[i + 1].id]

IdsOf(ps) == [i \in 1..Len(ps) |-> ps[i].id]

BlankResult ==
    [ tool |-> "", success |-> FALSE, message |-> "", paragraph_id |-> <<>>,
      index |-> 0, available_ids |-> <<>>, similar_ids |-> <<>>, matches |-> <<>>,
      valid_tools |-> <<>>, updated_paragraphs |-> <<>> ]

\* What a tool returns and what it leaves in self.
Outcome(ps, doc, res) == [paragraphs |-> ps, document_content |-> doc, result |-> res]

\* tools.py:464-495
get_document_paragraphs(ps, doc, ctype) ==
    LET loaded == EnsureLoaded(ps, doc, ctype)
    IN  Outcome(loaded, doc,
                [BlankResult EXCEPT !.tool = "get_document_paragraphs", !.success = TRUE,
                                    !.message = "ok", !.updated_paragraphs = loaded])

\* tools.py:355-370: the position (from 1) of the first paragraph whose id is
\* the requested one or differs from it only by case; 0 when there is none.
FindForModify(ps, paragraph_id) ==
    IF \E i \in 1..Len(ps) : ps[i].id = paragraph_id \/ Lower(ps[i].id) = Lower(paragraph_id)
    THEN CHOOSE i \in 1..Len(ps) :
            /\ ps[i].id = paragraph_id \/ Lower(ps[i].id) = Lower(paragraph_id)
            /\ \A j \in 1..(i - 1) :
                  ~(ps[j].id = paragraph_id \/ Lower(ps[j].id) = Lower(paragraph_id))
    ELSE 0

\* tools.py:385
SimilarIds(ids, paragraph_id) ==
    SelectSeq(ids, LAMBDA pid : Contains(Lower(pid), Lower(paragraph_id))
                                \/ Contains(Lower(paragraph_id), Lower(pid)))

\* modify_document_paragraph writing to every paragraph whose id is the
\* requested one up to letter case.
modify_document_paragraph_all(ps, doc, ctype, paragraph_id, new_content) ==
    IF paragraph_id = <<>>
    THEN Outcome(ps, doc,
                 [BlankResult EXCEPT !.tool = "modify_document_paragraph",
                                     !.message = "empty_id",
                                     !.paragraph_id = paragraph_id,
                                     !.updated_paragraphs =
                                         IF ctype = "paragraphs" THEN ps ELSE <<>>])
    ELSE LET loaded == EnsureLoaded(ps, doc, ctype)
             para_index == FindForModify(loaded, paragraph_id)
             updated == [i \in 1..Len(loaded) |->
                            IF Lower(loaded[i].id) = Lower(paragraph_id)
                            THEN [loaded[i] EXCEPT !.content = new_content,
                                                   !.text = PlainText(new_content)]
                            ELSE loaded[i]]
         IN  IF para_index = 0
             THEN Outcome(loaded, doc,
                          [BlankResult EXCEPT !.tool = "modify_document_paragraph",
                                              !.message = "not_found",
                                              !.paragraph_id = paragraph_id,
                                              !.available_ids = IdsOf(loaded),
                                              !.similar_ids = SimilarIds(IdsOf(loaded), paragraph_id),
                                              !.updated_paragraphs = loaded])
             ELSE Outcome(updated, paragraphs_to_html(updated),
                          [BlankResult EXCEPT !.tool = "modify_document_paragraph",
                                              !.success = TRUE,
                                              !.message = "ok",
                                              !.paragraph_id = paragraph_id,
                                              !.updated_paragraphs = updated])

\* tools.py:318-429
modify_document_paragraph(ps, doc, ctype, paragraph_id, new_content) ==
    IF paragraph_id = <<>>
    THEN Outcome(ps, doc,
                 [BlankResult EXCEPT !.tool = "modify_document_paragraph",
                                     !.message = "empty_id",
                                     !.paragraph_id = paragraph_id,
                                     !.updated_paragraphs =
                                         IF ctype = "paragraphs" THEN ps ELSE <<>>])
    ELSE LET loaded == EnsureLoaded(ps, doc, ctype)
             para_index == FindForModify(loaded, paragraph_id)
             updated == [loaded EXCEPT ![para_index].content = new_content,
                                       ![para_index].text = PlainText(new_content)]
         IN  IF para_index = 0
             THEN Outcome(loaded, doc,
                          [BlankResult EXCEPT !.tool = "modify_document_paragraph",
                                              !.message = "not_found",
                                              !.paragraph_id = paragraph_id,
                                              !.available_ids = IdsOf(loaded),
                                              !.similar_ids = SimilarIds(IdsOf(loaded), paragraph_id),
                                              !.updated_paragraphs = loaded])
             ELSE Outcome(updated, paragraphs_to_html(updated),
                          [BlankResult EXCEPT !.tool = "modify_document_paragraph",
                                              !.success = TRUE,
                                              !.message = "ok",
                                              !.paragraph_id = paragraph_id,
                                              !.updated_paragraphs = updated])

\* tools.py:497-551
add_document_paragraph(ps, doc, ctype, index, content) ==
    LET loaded == EnsureLoaded(ps, doc, ctype)
        new_para_id == ParaId(Len(loaded))
        new_para == Paragraph(new_para_id, index, content, PlainText(content))
        updated == Reindex(InsertAt(loaded, index, new_para))
    IN  Outcome(updated, paragraphs_to_html(updated),
                [BlankResult EXCEPT !.tool = "add_document_paragraph",
                                    !.success = TRUE,
                                    !.message = "ok",
                                    !.paragraph_id = new_para_id,
                                    !.index = index,
                                    !.updated_paragraphs = updated])

\* tools.py:572-577: the position (from 1) of the first paragraph with exactly
\* this id; 0 when there is none.
FindForDelete(ps, paragraph_id) ==
    IF \E i \in 1..Len(ps) : ps[i].id = paragraph_id
    THEN CHOOSE i \in 1..Len(ps) :
            ps[i].id = paragraph_id /\ \A j \in 1..(i - 1) : ps[j].id # paragraph_id
    ELSE 0

\* delete_document_paragraph with the pop moved ahead of the not-found return:
\* pop(-1) takes the last paragraph.
delete_document_paragraph_pop_first(ps, doc, ctype, paragraph_id) ==
    LET loaded == EnsureLoaded(ps, doc, ctype)
        para_index == FindForDelete(loaded, paragraph_id)
        popped == IF para_index = 0 THEN RemoveAt(loaded, Len(loaded))
                  ELSE RemoveAt(loaded, para_index)
    IN  IF para_index = 0
        THEN Outcome(popped, doc,
                     [BlankResult EXCEPT !.tool = "delete_document_paragraph",
                                         !.message = "not_found",
                                         !.paragraph_id = paragraph_id,
                                         !.updated_paragraphs = popped])
        ELSE Outcome(Reindex(popped), paragraphs_to_html(Reindex(popped)),
                     [BlankResult EXCEPT !.tool = "delete_document_paragraph",
                                         !.success = TRUE,
                                         !.message = "ok",
                                         !.paragraph_id = paragraph_id,
                                         !.updated_paragraphs = Reindex(popped)])

\* tools.py:553-615
delete_document_paragraph(ps, doc, ctype, paragraph_id) ==
    LET loaded == EnsureLoaded(ps, doc, ctype)
        para_index == FindForDelete(loaded, paragraph_id)
        updated == Reindex(RemoveAt(loaded, para_index))
    IN  IF para_index = 0
        THEN Outcome(loaded, doc,
                     [BlankResult EXCEPT !.tool = "delete_document_paragraph",
                                         !.message = "not_found",
                                         !.paragraph_id = paragraph_id,
                                         !.updated_paragraphs = loaded])
        ELSE Outcome(updated, paragraphs_to_html(updated),
                     [BlankResult EXCEPT !.tool = "delete_document_paragraph",
                                         !.success = TRUE,
                                         !.message = "ok",
                                         !.paragraph_id = paragraph_id,
                                         !.updated_paragraphs = updated])

(***************************************************************************)
(* search_document_paragraphs (tools.py:177-316).                          *)
(***************************************************************************)
\* str.split(): the maximal runs of non-space characters
RECURSIVE SplitWords(_)
SplitWords(s) ==
    LET t == Strip(s)
        stop == IF \E i \in 1..Len(t) : IsSpace(t[i])
                THEN CHOOSE i \in 1..Len(t) : IsSpace(t[i]) /\ \A j \in 1..(i - 1) : ~IsSpace(t[j])
                ELSE Len(t) + 1
    IN  IF t = <<>> THEN <<>>
        ELSE <<SubSeq(t, 1, stop - 1)>> \o SplitWords(SubSeq(t, stop, Len(t)))

\* line 212
QueryLower(query) == Strip(Lower(query))
\* line 213
QueryWords(query) == SelectSeq(SplitWords(QueryLower(query)), LAMBDA w : Len(w) > 1)

\* line 244
HeadingTags == { <<"<", "h", ToString(n)>> : n \in 1..6 }
IsHeading(content) == \E tag \in HeadingTags : Contains(Lower(content), tag)

RECURSIVE SequenceScore(_, _, _)
\* lines 265-273: 5 points per query character found in order; q is what is
\* left of the query and char_pos the position (from 0) the search resumes at.
SequenceScore(q, para_chars, char_pos) ==
    IF q = <<>> THEN 0
    ELSE IF char_pos < Len(para_chars) /\ IndexFrom(para_chars, Head(q), char_pos + 1) # 0
         THEN 5 + SequenceScore(Tail(q), para_chars, IndexFrom(para_chars, Head(q), char_pos + 1))
         ELSE 0

\* The score with the points of the exact and all-words tiers added up.
ScoreParagraphSummed(query, para) ==
    LET query_lower == QueryLower(query)
        query_words == QueryWords(query)
        para_text == Lower(para.text)
        hits == SelectSeq(query_words, LAMBDA w : Contains(para_text, w))
        seq_score == SequenceScore(query_lower, para_text, 0)
        all_words == query_words # <<>> /\ Len(hits) = Len(query_words)
    IN  IF Contains(para_text, query_lower)
        THEN [score |-> 100 + (IF all_words THEN 80 ELSE 0), match_type |-> "exact"]
        ELSE IF all_words
        THEN [score |-> 80, match_type |-> "all_words"]
        ELSE IF IsHeading(para.content)
        THEN IF hits # <<>>
             THEN [score |-> 70, match_type |-> "heading"]
             ELSE [score |-> 0, match_type |-> "none"]
        ELSE IF query_words # <<>> /\ hits # <<>>
        THEN [score |-> 50 + Len(hits) * 10, match_type |-> "partial"]
        ELSE IF Len(query_lower) >= 3 /\ seq_score > 0
        THEN [score |-> seq_score, match_type |-> "sequence"]
        ELSE [score |-> 0, match_type |-> "none"]

\* lines 219-278: the score and match type of one paragraph
ScoreParagraph(query, para) ==
    LET query_lower == QueryLower(query)
        query_words == QueryWords(query)
        para_text == Lower(para.text)
        hits == SelectSeq(query_words, LAMBDA w : Contains(para_text, w))
        seq_score == SequenceScore(query_lower, para_text, 0)
    IN  IF Contains(para_text, query_lower)
        THEN [score |-> 100, match_type |-> "exact"]
        ELSE IF query_words # <<>> /\ Len(hits) = Len(query_words)
        THEN [score |-> 80, match_type |-> "all_words"]
        ELSE IF IsHeading(para.content)
        THEN IF hits # <<>>
             THEN [score |-> 70, match_type |-> "heading"]
             ELSE [score |-> 0, match_type |-> "none"]
        ELSE IF query_words # <<>> /\ hits # <<>>
        THEN [score |-> 50 + Len(hits) * 10, match_type |-> "partial"]
        ELSE IF Len(query_lower) >= 3 /\ seq_score > 0
        THEN [score |-> seq_score, match_type |-> "sequence"]
        ELSE [score |-> 0, match_type |-> "none"]

\* lines 280-289
MatchOf(query, para) ==
    [ paragraph_id |-> para.id, paragraph_index |-> para.index, text |-> para.text,
      paragraph_content |-> para.content,
      relevance_score |-> ScoreParagraph(query, para).score,
      match_type |-> ScoreParagraph(query, para).match_type ]

SortByScoreNot(ms) == ms

RECURSIVE SortByScore(_)
\* line 297: list.sort(key=score, reverse=True), which keeps equal scores in
\* their order
SortByScore(ms) ==
    IF ms = <<>> THEN <<>>
    ELSE LET first == CHOOSE i \in 1..Len(ms) :
                         /\ \A j \in 1..Len(ms) : ms[i].relevance_score >= ms[j].relevance_score
                         /\ \A j \in 1..(i - 1) : ms[j].relevance_score # ms[i].relevance_score
         IN  <<ms[first]>>
             \o SortByScore(SubSeq(ms, 1, first - 1) \o SubSeq(ms, first + 1, Len(ms)))

SearchMatches(query, ps) ==
    SortByScore(SelectSeq([i \in 1..Len(ps) |-> MatchOf(query, ps[i])],
                          LAMBDA m : m.relevance_score > 0))

search_document_paragraphs(ps, doc, ctype, query) ==
    IF query = <<>>
    THEN Outcome(ps, doc,
                 [BlankResult EXCEPT !.tool = "search_document_paragraphs",
                                     !.message = "empty_query"])
    ELSE LET loaded == EnsureLoaded(ps, doc, ctype)
             matches == SearchMatches(query, loaded)
         IN  Outcome(loaded, doc,
                     [BlankResult EXCEPT !.tool = "search_document_paragraphs",
                                         !.success = (matches # <<>>),
                                         !.message = IF matches # <<>> THEN "found" ELSE "no_match",
                                         !.matches = matches])

ValidToolsFour ==
    << "get_document_paragraphs", "search_document_paragraphs", "modify_document_paragraph",
       "add_document_paragraph" >>

\* tools.py:652-667
ValidTools ==
    << "get_document_paragraphs", "search_document_paragraphs", "modify_document_paragraph",
       "add_document_paragraph", "delete_document_paragraph" >>

UnknownToolResult(tool_name) ==
    [BlankResult EXCEPT !.tool = tool_name, !.message = "unknown_tool",
                        !.valid_tools = ValidTools]

(***************************************************************************)
(* The store behind execute_tool (tools.py:617-687), one action per tool   *)
(* name.                                                                   *)
(***************************************************************************)
\* "<p>a</p>", "<h1>b</h1>" and " b"
ContentPA == <<"<", "p", ">", "a", "<", "/", "p", ">">>
ContentH1B == <<"<", "h", "1", ">", "b", "<", "/", "h", "1", ">">>
ContentBare == <<" ", "b">>

\* The contents a document starts with, and those a caller writes.
InitialContents == {ContentPA, ContentH1B}
NewContents == {ContentPA, ContentBare}

\* "PARA-0": para-0 in another case
UpperId0 == <<"P", "A", "R", "A", "-", "0">>
\* "para-99": an id no paragraph carries
UnknownId == ParaId(99)

\* The paragraph arrays a caller constructs the store with: ids para-0.. in
\* order or, for two paragraphs, PARA-0 ahead of para-0.
InitialArrays ==
    { [i \in 1..Len(cs) |-> Paragraph(ParaId(i - 1), i - 1, cs[i], PlainText(cs[i]))] :
        cs \in SeqsUpTo(InitialContents, MaxParas) }
    \cup { << Paragraph(UpperId0, 0, ContentPA, PlainText(ContentPA)),
              Paragraph(ParaId(0), 1, ContentH1B, PlainText(ContentH1B)) >> }

\* The HTML strings a caller constructs the store with.
InitialHtml == { JoinWith(cs, <<"\n">>) : cs \in SeqsUpTo(InitialContents, MaxParas) }

RequestIds == {<<>>, UpperId0, UnknownId} \cup {ParaId(n) : n \in 0..MaxParas}
InsertIndexes == (0 - MaxParas - 1)..(MaxParas + 1)
Queries == {<<>>, <<"a">>, <<"b", " ", "a">>}
UnknownTools == {"none"}

SetOf(q) == {q[i] : i \in 1..Len(q)}

\* The paragraphs the store holds, loaded or not yet.
StoredParagraphs == EnsureLoaded(paragraphs, document_content, content_type)

\* DocumentTools.__init__ (tools.py:22-43)
InitStore ==
    /\ \/ \E ps \in InitialArrays :
            /\ paragraphs = ps
            /\ document_content = paragraphs_to_html(ps)
            /\ content_type = "paragraphs"
       \/ \E html \in InitialHtml :
            /\ paragraphs = <<>>
            /\ document_content = html
            /\ content_type = "html"
    /\ issued = SetOf(IdsOf(StoredParagraphs))
    /\ result = BlankResult

\* execute_tool returns the tool's result; self keeps what the tool left.
Return(out) ==
    /\ paragraphs' = out.paragraphs
    /\ document_content' = out.document_content
    /\ result' = out.result
    /\ issued' = issued \cup SetOf(IdsOf(out.paragraphs))
    /\ UNCHANGED content_type

\* tools.py:642-643
ToolGet ==
    Return(get_document_paragraphs(paragraphs, document_content, content_type))

\* tools.py:635-636
ToolSearch ==
    \E query \in Queries :
        Return(search_document_paragraphs(paragraphs, document_content, content_type, query))

\* tools.py:637-641
ToolModify ==
    \E paragraph_id \in RequestIds, new_content \in NewContents :
        Return(modify_document_paragraph(paragraphs, document_content, content_type,
                                         paragraph_id, new_content))

\* tools.py:644-648
ToolAdd ==
    /\ Len(StoredParagraphs) < MaxParas
    /\ \E index \in InsertIndexes, content \in NewContents :
         Return(add_document_paragraph(paragraphs, document_content, content_type,
                                       index, content))

\* tools.py:649-650
ToolDelete ==
    \E paragraph_id \in RequestIds :
        Return(delete_document_paragraph(paragraphs, document_content, content_type,
                                         paragraph_id))

\* tools.py:651-667
ToolUnknown ==
    \E tool_name \in UnknownTools :
        /\ result' = UnknownToolResult(tool_name)
        /\ UNCHANGED <<paragraphs, document_content, content_type, issued>>

StoreIdle ==
    /\ paragraphs = <<>>
    /\ document_content = <<>>
    /\ content_type = "paragraphs"
    /\ issued = {}
    /\ result = BlankResult

RunIdle ==
    /\ pc = "idle"
    /\ events = <<>>
    /\ timeline = InitialTimeline
    /\ stream_shape = "by_node"
    /\ calls = 0
    /\ failed = ""
    /\ paragraph_count = 0
    /\ wf_state = InitialState
    /\ executions = 0
    /\ section_index = 0
    /\ drafted_sections = <<>>
    /\ compile_handled = FALSE

(***************************************************************************)
(* search_document_paragraphs applied to one query and one store.          *)
(***************************************************************************)
\* The contents of the paragraphs searched:
\* "<p>ab cd</p>", "<p>cd ab</p>", "<h1>ab</h1>", "<p>AB</p>", "<h2>a b c</h2>", "<p>b a</p>".
SearchContents ==
    { <<"<", "p", ">", "a", "b", " ", "c", "d", "<", "/", "p", ">">>,
      <<"<", "p", ">", "c", "d", " ", "a", "b", "<", "/", "p", ">">>,
      <<"<", "h", "1", ">", "a", "b", "<", "/", "h", "1", ">">>,
      <<"<", "p", ">", "A", "B", "<", "/", "p", ">">>,
      <<"<", "h", "2", ">", "a", " ", "b", " ", "c", "<", "/", "h", "2", ">">>,
      <<"<", "p", ">", "b", " ", "a", "<", "/", "p", ">">> }

\* The stores searched: up to MaxSearchParas such paragraphs, ids para-0.. in
\* order.
SearchStores ==
    { [i \in 1..Len(q) |-> Paragraph(ParaId(i - 1), i - 1, q[i], PlainText(q[i]))] :
        q \in SeqsUpTo(SearchContents, MaxSearchParas) }

\* The queries:
\* "ab cd", "AB", "ab ab zz", "ab ab ab ab ab zz", "a b", "abc", "zz", "cd zz",
\* and the query of one space.
SearchQueries ==
    { <<" ">>,
      <<"a", "b", " ", "c", "d">>,
      <<"A", "B">>,
      <<"a", "b", " ", "a", "b", " ", "z", "z">>,
      <<"a", "b", " ", "a", "b", " ", "a", "b", " ", "a", "b", " ", "a", "b", " ", "z", "z">>,
      <<"a", " ", "b">>,
      <<"a", "b", "c">>,
      <<"z", "z">>,
      <<"c", "d", " ", "z", "z">> }

SearchIdle ==
    /\ s_in = [query |-> <<>>, paragraphs |-> <<>>]
    /\ s_out = [done |-> FALSE, result |-> BlankResult]

InitSearch ==
    /\ s_in \in [query : SearchQueries, paragraphs : SearchStores]
    /\ s_out = [done |-> FALSE, result |-> BlankResult]

\* tools.py:635-636 on a store constructed with the paragraphs (lines 30-33)
Search ==
    /\ ~s_out.done
    /\ s_out' = [done |-> TRUE,
                 result |-> search_document_paragraphs(s_in.paragraphs,
                                                       paragraphs_to_html(s_in.paragraphs),
                                                       "paragraphs", s_in.query).result]
    /\ UNCHANGED s_in

(***************************************************************************)
(* add_document_paragraph applied to one store, index and content.         *)
(***************************************************************************)
\* The stores inserted into: up to MaxInsertParas paragraphs, ids para-0.. in
\* order.
InsertStores ==
    { [i \in 1..Len(q) |-> Paragraph(ParaId(i - 1), i - 1, q[i], PlainText(q[i]))] :
        q \in SeqsUpTo(InitialContents, MaxInsertParas) }

InitInsert ==
    /\ s_in \in [paragraphs : InsertStores,
                 index : (0 - MaxInsertParas - 1)..(MaxInsertParas + 1),
                 content : NewContents]
    /\ s_out = [done |-> FALSE, result |-> BlankResult]

\* tools.py:647-648 on a store constructed with the paragraphs (lines 30-33)
Insert ==
    /\ ~s_out.done
    /\ s_out' = [done |-> TRUE,
                 result |-> add_document_paragraph(s_in.paragraphs,
                                                   paragraphs_to_html(s_in.paragraphs),
                                                   "paragraphs", s_in.index,
                                                   s_in.content).result]
    /\ UNCHANGED s_in

(***************************************************************************)
(* normalize_parameters and extract_writer_parameters (writer_intent.py).  *)
(*                                                                         *)
(* A JSON value is [t, n, s, l]: t its type, n its number, s its           *)
(* characters, l its elements.  A float's n counts tenths (0.7 is 7), so   *)
(* the floats of the model are those with one decimal; "nan" and "inf" are *)
(* the floats NaN and Infinity, which json.loads accepts.  "dict" is a     *)
(* non-empty object.  "absent" marks a key the object does not have.       *)
(***************************************************************************)
JAbsent == [t |-> "absent", n |-> 0, s |-> <<>>, l |-> <<>>]
JNull == [t |-> "null", n |-> 0, s |-> <<>>, l |-> <<>>]
JBool(b) == [t |-> "bool", n |-> IF b THEN 1 ELSE 0, s |-> <<>>, l |-> <<>>]
JInt(v) == [t |-> "int", n |-> v, s |-> <<>>, l |-> <<>>]
JFloat(tenths) == [t |-> "float", n |-> tenths, s |-> <<>>, l |-> <<>>]
JNaN == [t |-> "nan", n |-> 0, s |-> <<>>, l |-> <<>>]
JInf == [t |-> "inf", n |-> 0, s |-> <<>>, l |-> <<>>]
JStr(chars) == [t |-> "str", n |-> 0, s |-> chars, l |-> <<>>]
JList(elements) == [t |-> "list", n |-> 0, s |-> <<>>, l |-> elements]
JDict == [t |-> "dict", n |-> 0, s |-> <<>>, l |-> <<>>]

\* bool(x), as `or` and `if keyword` take it
Truthy(x) ==
    CASE x.t \in {"absent", "null"}       -> FALSE
      [] x.t \in {"bool", "int", "float"} -> x.n # 0
      [] x.t = "str"                      -> x.s # <<>>
      [] x.t = "list"                     -> x.l # <<>>
      [] OTHER                            -> TRUE

\* x or y
PyOr(x, y) == IF Truthy(x) THEN x ELSE y

\* raw.get(key)
Get(raw, key) == IF raw[key].t = "absent" THEN JNull ELSE raw[key]

IsDigit(c) == c \in {"0", "1", "2", "3", "4", "5", "6", "7", "8", "9"}

DigitValue(c) ==
    CASE c = "0" -> 0 [] c = "1" -> 1 [] c = "2" -> 2 [] c = "3" -> 3 [] c = "4" -> 4
      [] c = "5" -> 5 [] c = "6" -> 6 [] c = "7" -> 7 [] c = "8" -> 8 [] OTHER -> 9

AllDigits(chars) == chars # <<>> /\ \A i \in 1..Len(chars) : IsDigit(chars[i])

RECURSIVE NumeralValue(_)
NumeralValue(chars) ==
    IF chars = <<>> THEN 0
    ELSE 10 * NumeralValue(SubSeq(chars, 1, Len(chars) - 1)) + DigitValue(chars[Len(chars)])

\* A conversion that raised.
Raised == [ok |-> FALSE, kind |-> "num", v |-> 0]
Number(v) == [ok |-> TRUE, kind |-> "num", v |-> v]

\* int(x): a float is truncated towards zero; a text is stripped and must be
\* an unsigned numeral; NaN, Infinity, None, lists and objects raise.
PyInt(x) ==
    CASE x.t \in {"bool", "int"} -> Number(x.n)
      [] x.t = "float" -> Number(IF x.n >= 0 THEN x.n \div 10 ELSE -((-x.n) \div 10))
      [] x.t = "str" -> IF AllDigits(Strip(x.s)) THEN Number(NumeralValue(Strip(x.s))) ELSE Raised
      [] OTHER -> Raised

\* float(x), in tenths: a text is stripped and must be an unsigned numeral with
\* at most one decimal; None, lists and objects raise.
PyFloat(x) ==
    CASE x.t \in {"bool", "int"} -> Number(10 * x.n)
      [] x.t = "float" -> Number(x.n)
      [] x.t \in {"nan", "inf"} -> [ok |-> TRUE, kind |-> x.t, v |-> 0]
      [] x.t = "str" ->
            LET chars == Strip(x.s)
                whole == SubSeq(chars, 1, Len(chars) - 2)
            IN  IF AllDigits(chars) THEN Number(10 * NumeralValue(chars))
                ELSE IF /\ Len(chars) >= 3
                        /\ chars[Len(chars) - 1] = "."
                        /\ IsDigit(chars[Len(chars)])
                        /\ AllDigits(whole)
                     THEN Number(10 * NumeralValue(whole) + DigitValue(chars[Len(chars)]))
                     ELSE Raised
      [] OTHER -> Raised

\* str(x) of an element of the keywords list
PyStr(x) ==
    CASE x.t = "str"  -> x.s
      [] x.t = "int"  -> IF x.n < 0 THEN <<"-">> \o Digits(-x.n) ELSE Digits(x.n)
      [] x.t = "bool" -> IF x.n = 1 THEN <<"T", "r", "u", "e">> ELSE <<"F", "a", "l", "s", "e">>
      [] OTHER        -> <<"N", "o", "n", "e">>

\* writer_intent.py:75-84: the values used for a key that is missing or falsy
DefaultTitle == <<"A", "I", " ", "G", "e", "n", "e", "r", "a", "t", "e", "d", " ", "A", "r", "t", "i", "c", "l", "e">>
DefaultLanguage == <<"z", "h">>
DefaultTone == <<"p", "r", "o", "f", "e", "s", "s", "i", "o", "n", "a", "l">>
DefaultAudience == <<"g", "e", "n", "e", "r", "a", "l">>
DefaultFormat == <<"a", "r", "t", "i", "c", "l", "e">>
DefaultParagraphCount == 5
\* 0.7
DefaultTemperature == 7
DefaultMaxTokens == 1200

\* writer_intent.py:98, in tenths
MinTemperature == 0
MaxTemperature == 15
\* writer_intent.py:101
MinMaxTokens == 600
MaxMaxTokens == 4000

\* writer_intent.py:87-90
ClampParagraphCount(count) ==
    IF count < MinParagraphs THEN MinParagraphs
    ELSE IF count > MaxParagraphs THEN MaxParagraphs
    ELSE count

\* max(0.0, min(temperature, 1.5)).  min and max keep their first argument
\* unless the second compares smaller, respectively larger, and every
\* comparison with NaN is false: min(nan, 1.5) is nan and max(0.0, nan) is 0.0.
ClampTemperature(f) ==
    CASE f.kind = "nan" -> MinTemperature
      [] f.kind = "inf" -> MaxTemperature
      [] OTHER          -> Max(MinTemperature, Min(f.v, MaxTemperature))

ClampMaxTokensFromBelow(tokens) == Max(MinMaxTokens, tokens)

\* max(600, min(max_tokens, 4000))
ClampMaxTokens(tokens) == Max(MinMaxTokens, Min(tokens, MaxMaxTokens))

RECURSIVE KeptKeywords(_)
\* [str(keyword).strip() for keyword in keywords if keyword]
KeptKeywords(elements) ==
    IF elements = <<>> THEN <<>>
    ELSE (IF Truthy(Head(elements)) THEN <<Strip(PyStr(Head(elements)))>> ELSE <<>>)
         \o KeptKeywords(Tail(elements))

\* writer_intent.py:83 and 92-95
NormalizeKeywords(value) ==
    LET given == PyOr(value, JList(<<>>))
        listed == IF given.t # "list" THEN JList(<<>>) ELSE given
    IN  JList(KeptKeywords(listed.l))

\* What a call that raised leaves behind: no parameters.
NoParams ==
    [title |-> JNull, topic |-> JNull, language |-> <<>>, tone |-> JNull, audience |-> JNull,
     paragraph_count |-> 0, temperature |-> 0, max_tokens |-> 0, keywords |-> JNull,
     format |-> JNull]

\* writer_intent.py:67-103.  payload is what parse_json_block returned:
\* [type, fields].  Anything but an object has no get (AttributeError); lower()
\* exists on a text only; int() and float() raise as PyInt and PyFloat say.
normalize_parameters(payload) ==
    LET raw == payload.fields
        language == PyOr(Get(raw, "language"), JStr(DefaultLanguage))
        count == PyInt(PyOr(PyOr(Get(raw, "paragraph_count"), Get(raw, "segments")),
                            JInt(DefaultParagraphCount)))
        temperature == PyFloat(PyOr(Get(raw, "temperature"), JFloat(DefaultTemperature)))
        max_tokens == PyInt(PyOr(Get(raw, "max_tokens"), JInt(DefaultMaxTokens)))
    IN  IF \/ payload.type # "dict"
           \/ language.t # "str"
           \/ ~count.ok
           \/ ~temperature.ok
           \/ ~max_tokens.ok
        THEN [raised |-> TRUE, params |-> NoParams]
        ELSE [raised |-> FALSE,
              params |->
                 [title |-> PyOr(PyOr(Get(raw, "title"), Get(raw, "topic")), JStr(DefaultTitle)),
                  topic |-> PyOr(PyOr(Get(raw, "topic"), Get(raw, "title")), JStr(DefaultTitle)),
                  language |-> Lower(language.s),
                  tone |-> PyOr(Get(raw, "tone"), JStr(DefaultTone)),
                  audience |-> PyOr(Get(raw, "audience"), JStr(DefaultAudience)),
                  paragraph_count |-> ClampParagraphCount(count.v),
                  temperature |-> ClampTemperature(temperature),
                  max_tokens |-> ClampMaxTokens(max_tokens.v),
                  keywords |-> NormalizeKeywords(Get(raw, "keywords")),
                  format |-> PyOr(Get(raw, "format"), JStr(DefaultFormat))]]

\* An object without any of the keys.
BlankRaw ==
    [title |-> JAbsent, topic |-> JAbsent, language |-> JAbsent, tone |-> JAbsent,
     audience |-> JAbsent, paragraph_count |-> JAbsent, segments |-> JAbsent,
     temperature |-> JAbsent, max_tokens |-> JAbsent, keywords |-> JAbsent,
     format |-> JAbsent]

\* parse_json_block (writer_intent.py:36-64) on the parameter response.
\* "empty": no text;  "unparseable": text json.loads rejects;  "array": a JSON
\* list;  "scalar": JSON that is neither a list nor an object;  "object": an
\* object with the keys of raw.
parse_json_payload(reply) ==
    CASE reply.kind \in {"empty", "unparseable"} -> [type |-> "dict", fields |-> BlankRaw]
      [] reply.kind = "array"                    -> [type |-> "list", fields |-> BlankRaw]
      [] reply.kind = "scalar"                   -> [type |-> "other", fields |-> BlankRaw]
      [] OTHER                                   -> [type |-> "dict", fields |-> reply.raw]

\* writer_intent.py:155-167, once llm.invoke has returned the response
extract_writer_parameters(reply) == normalize_parameters(parse_json_payload(reply))

\* The values of "paragraph_count" in the responses.
ParagraphCountValues ==
    { JAbsent, JNull, JInt(0), JInt(1), JInt(3), JInt(5), JInt(12), JInt(13), JInt(-2),
      JFloat(45), JBool(TRUE), JNaN, JStr(<<"7">>), JStr(<<"a", "b", "c">>) }

SegmentsValues == { JAbsent, JInt(8) }

\* The values of "temperature": among them 0, 0.0, 0.3, 1.5, 3.0, -0.5.
TemperatureValues ==
    { JAbsent, JNull, JInt(0), JInt(1), JInt(2), JFloat(0), JFloat(3), JFloat(15), JFloat(30),
      JFloat(-5), JNaN, JInf, JStr(<<"0", ".", "5">>), JStr(<<"a", "b", "c">>) }

MaxTokensValues ==
    { JAbsent, JInt(0), JInt(100), JInt(600), JInt(1500), JInt(4000), JInt(5000),
      JStr(<<"a", "b", "c">>) }

\* The elements of a "keywords" list: "a", " b ", " ", "", 0, 5, null.
KeywordElements ==
    { JStr(<<"a">>), JStr(<<" ", "b", " ">>), JStr(<<" ">>), JStr(<<>>), JInt(0), JInt(5),
      JNull }

KeywordsValues ==
    { JAbsent, JNull, JStr(<<"x">>), JInt(5), JDict }
    \cup { JList(q) : q \in SeqsUpTo(KeywordElements, MaxKeywords) }

TextValues == { JAbsent, JStr(<<"T">>) }

\* The objects of the responses: the numeric keys vary together, the keywords
\* and the texts each on an object without the other keys.
RawObjects ==
    { [BlankRaw EXCEPT !.paragraph_count = c, !.segments = g, !.temperature = t,
                       !.max_tokens = m, !.keywords = k] :
        c \in ParagraphCountValues, g \in SegmentsValues, t \in TemperatureValues,
        m \in MaxTokensValues, k \in {JAbsent, JStr(<<"x">>)} }
    \cup { [BlankRaw EXCEPT !.keywords = k] : k \in KeywordsValues }
    \cup { [BlankRaw EXCEPT !.title = a, !.topic = b, !.language = c, !.tone = d,
                            !.audience = e, !.format = f] :
             a \in {JAbsent, JStr(<<>>), JStr(<<"T">>)},
             b \in {JAbsent, JStr(<<"P">>)},
             c \in {JAbsent, JNull, JStr(<<"A", "R">>), JInt(5)},
             d \in TextValues, e \in TextValues, f \in TextValues }

Replies ==
    { [kind |-> k, raw |-> BlankRaw] : k \in {"empty", "unparseable", "array", "scalar"} }
    \cup { [kind |-> "object", raw |-> r] : r \in RawObjects }

NoCall == [done |-> FALSE, by |-> "none", raised |-> FALSE, params |-> NoParams]

ParamsIdle ==
    /\ n_in = [kind |-> "empty", raw |-> BlankRaw]
    /\ n_out = NoCall

InitParams ==
    /\ n_in \in Replies
    /\ n_out = NoCall

\* normalize_parameters(raw) on the object of the response
Normalize ==
    /\ ~n_out.done
    /\ n_in.kind = "object"
    /\ LET out == normalize_parameters([type |-> "dict", fields |-> n_in.raw])
       IN  n_out' = [done |-> TRUE, by |-> "normalize_parameters",
                     raised |-> out.raised, params |-> out.params]
    /\ UNCHANGED n_in

\* extract_writer_parameters(llm, user_prompt) with the response from llm.invoke
Extract ==
    /\ ~n_out.done
    /\ LET out == extract_writer_parameters(n_in)
       IN  n_out' = [done |-> TRUE, by |-> "extract_writer_parameters",
                     raised |-> out.raised, params |-> out.params]
    /\ UNCHANGED n_in

(***************************************************************************)
(* analyze_intent (writer_intent.py:140-152).                              *)
(***************************************************************************)
\* payload.get(key, default): the default is for a missing key only.
GetDefault(raw, key, default) ==
    IF key \notin DOMAIN raw THEN default
    ELSE IF raw[key].t = "absent" THEN default
    ELSE raw[key]

\* 0.75, in hundredths
DefaultConfidence == 75

\* The default reason of line 148, a Chinese sentence, written in ASCII here.
DefaultReason == <<"m", "o", "d", "e", "l", " ", "s", "a", "y", "s", " ", "w", "r", "i", "t", "e">>

\* What a call that raised leaves behind: no intent.
NoIntent == [should_write |-> FALSE, confidence |-> Number(0), reason |-> JNull]

\* writer_intent.py:140-152, once llm.invoke has returned the response.
\* confidence is a float in hundredths, or NaN or Infinity.  Anything but an
\* object has no get (AttributeError); float() raises as PyFloat says.
analyze_intent(reply) ==
    LET payload == parse_json_payload(reply)
        raw == payload.fields
        given == GetDefault(raw, "confidence", JAbsent)
        converted == PyFloat(given)
    IN  IF payload.type # "dict" \/ (given.t # "absent" /\ ~converted.ok)
        THEN [raised |-> TRUE, params |-> NoIntent]
        ELSE [raised |-> FALSE,
              params |->
                 [should_write |-> Truthy(GetDefault(raw, "should_write", JBool(TRUE))),
                  confidence |-> IF given.t = "absent" THEN Number(DefaultConfidence)
                                 ELSE [converted EXCEPT !.v = 10 * converted.v],
                  reason |-> GetDefault(raw, "reason", JStr(DefaultReason))]]

\* The responses to the intent prompt: "should_write" missing, null, true,
\* false, 0 or the text "false"; "confidence" missing, null, 0.5, 1, NaN, the
\* text "0.5" or "abc"; "reason" missing, a text or a number.
IntentReplies ==
    { [kind |-> k, raw |-> BlankRaw] : k \in {"empty", "unparseable", "array", "scalar"} }
    \cup { [kind |-> "object", raw |-> [should_write |-> w, confidence |-> c, reason |-> r]] :
             w \in {JAbsent, JNull, JBool(TRUE), JBool(FALSE), JInt(0),
                    JStr(<<"f", "a", "l", "s", "e">>)},
             c \in {JAbsent, JNull, JFloat(5), JInt(1), JNaN, JStr(<<"0", ".", "5">>),
                    JStr(<<"a", "b", "c">>)},
             r \in {JAbsent, JStr(<<"r">>), JInt(5)} }

InitIntent ==
    /\ n_in \in IntentReplies
    /\ n_out = NoCall

\* analyze_intent(llm, user_prompt) with the response from llm.invoke
AnalyzeIntent ==
    /\ ~n_out.done
    /\ LET out == analyze_intent(n_in)
       IN  n_out' = [done |-> TRUE, by |-> "analyze_intent",
                     raised |-> out.raised, params |-> out.params]
    /\ UNCHANGED n_in

(***************************************************************************)
(* parse_json_block on the characters of a response (writer_intent.py:     *)
(* 36-64).  A payload is written as its JSON text without white space.     *)
(***************************************************************************)
\* The character of a code fence, the backquote: one element of a text, under a name.
Tick == "backquote"
Fence == <<Tick, Tick, Tick>>
FenceJson == <<Tick, Tick, Tick, "j", "s", "o", "n">>
EmptyObject == <<"{", "}">>

\* str.find(sub, start): the first position, counted from 0, or -1
Find(chars, sub, start) ==
    LET at == {i \in start..(Len(chars) - Len(sub)) :
                  SubSeq(chars, i + 1, i + Len(sub)) = sub}
    IN  IF at = {} THEN -1 ELSE CHOOSE i \in at : \A j \in at : i <= j

\* chars[start:end] for start >= 0; a negative end counts from the right
Slice(chars, start, end) ==
    SubSeq(chars, start + 1, IF end < 0 THEN Len(chars) + end ELSE Min(end, Len(chars)))

\* The JSON texts of the model: {}, [1], "x", {"a":1} and the text "```",
\* a string that holds a fence.
JsonTexts ==
    { <<"{", "}">>,
      <<"[", "1", "]">>,
      <<"\"", "x", "\"">>,
      <<"{", "\"", "a", "\"", ":", "1", "}">>,
      <<"\"", Tick, Tick, Tick, "\"">> }

\* Texts json.loads rejects: abc, { and the empty text.
NotJsonTexts == { <<"a", "b", "c">>, <<"{">>, <<>> }

\* json.loads(chars) for a text without white space around it
JsonLoads(chars) == [ok |-> chars \in JsonTexts, value |-> chars]

\* writer_intent.py:36-64
parse_json_text(text) ==
    IF text = <<>> THEN EmptyObject
    ELSE LET stripped == Strip(text)
             json_start == Find(stripped, FenceJson, 0) + Len(FenceJson)
             start == Find(stripped, Fence, 0) + Len(Fence)
             body == IF Contains(stripped, FenceJson)
                     THEN Strip(Slice(stripped, json_start, Find(stripped, Fence, json_start)))
                     ELSE IF StartsWith(stripped, Fence)
                          THEN Strip(Slice(stripped, start, Find(stripped, Fence, start)))
                          ELSE stripped
             loaded == JsonLoads(body)
         IN  IF loaded.ok THEN loaded.value ELSE EmptyObject

\* The response that carries the text json in the given form, with lead
\* around it and sep between the fences and the text.
Wrapped(form, json, lead, sep) ==
    CASE form = "plain"      -> lead \o json \o lead
      [] form = "json_fence" -> lead \o FenceJson \o sep \o json \o sep \o Fence
      [] form = "fence"      -> lead \o Fence \o sep \o json \o sep \o Fence
      [] OTHER               -> lead \o FenceJson \o sep \o json

\* The responses parsed: each text plain, in a ```json fence, in a ``` fence
\* and in a ```json fence that is never closed.
ParseInputs ==
    { [kind |-> f, raw |-> j, text |-> Wrapped(f, j, lead, sep)] :
        f \in {"plain", "json_fence", "fence", "open_fence"},
        j \in JsonTexts \cup NotJsonTexts,
        lead \in {<<>>, <<" ">>, <<"\n">>},
        sep \in {<<>>, <<"\n">>, <<" ">>} }

InitParse ==
    /\ n_in \in ParseInputs
    /\ n_out = NoCall

\* parse_json_block(text)
Parse ==
    /\ ~n_out.done
    /\ n_out' = [done |-> TRUE, by |-> "parse_json_block", raised |-> FALSE,
                 params |-> parse_json_text(n_in.text)]
    /\ UNCHANGED n_in

(***************************************************************************)
(* The specifications.                                                     *)
(***************************************************************************)
NextRun ==
    \/ RunStart /\ UNCHANGED <<outlineVars, storeVars, searchVars, paramVars>>
    \/ RunIntent /\ UNCHANGED <<outlineVars, storeVars, searchVars, paramVars>>
    \/ RunParameters /\ UNCHANGED <<outlineVars, storeVars, searchVars, paramVars>>
    \/ RunOutlining /\ UNCHANGED <<outlineVars, storeVars, searchVars, paramVars>>
    \/ StreamOutline /\ UNCHANGED <<outlineVars, storeVars, searchVars, paramVars>>
    \/ StreamWriteSection /\ UNCHANGED <<outlineVars, storeVars, searchVars, paramVars>>
    \/ RunProgressStatus /\ UNCHANGED <<outlineVars, storeVars, searchVars, paramVars>>
    \/ RunSectionProgress /\ UNCHANGED <<outlineVars, storeVars, searchVars, paramVars>>
    \/ RunArticleDraft /\ UNCHANGED <<outlineVars, storeVars, searchVars, paramVars>>
    \/ RunShortcutDelivering /\ UNCHANGED <<outlineVars, storeVars, searchVars, paramVars>>
    \/ RunShortcutComplete /\ UNCHANGED <<outlineVars, storeVars, searchVars, paramVars>>
    \/ StreamCompile /\ UNCHANGED <<outlineVars, storeVars, searchVars, paramVars>>
    \/ RunCompileComplete /\ UNCHANGED <<outlineVars, storeVars, searchVars, paramVars>>
    \/ StreamEnd /\ UNCHANGED <<outlineVars, storeVars, searchVars, paramVars>>
    \/ InvokeOutline /\ UNCHANGED <<outlineVars, storeVars, searchVars, paramVars>>
    \/ InvokeWriteSection /\ UNCHANGED <<outlineVars, storeVars, searchVars, paramVars>>
    \/ InvokeCompile /\ UNCHANGED <<outlineVars, storeVars, searchVars, paramVars>>
    \/ RunFallbackComplete /\ UNCHANGED <<outlineVars, storeVars, searchVars, paramVars>>

InitSpecRun == InitRun /\ OutlineIdle /\ StoreIdle /\ SearchIdle /\ ParamsIdle

SpecRun == InitSpecRun /\ [][NextRun]_vars

\* The generator is resumed until it finishes, and every gateway call returns
\* or raises.
FairSpecRun == SpecRun /\ WF_vars(NextRun)

NextOutline ==
    \/ BuildOutline /\ UNCHANGED <<runVars, storeVars, searchVars, paramVars>>

InitSpecOutline == RunIdle /\ InitOutline /\ StoreIdle /\ SearchIdle /\ ParamsIdle

SpecOutline == InitSpecOutline /\ [][NextOutline]_vars

NextStore ==
    \/ ToolGet /\ UNCHANGED <<runVars, outlineVars, searchVars, paramVars>>
    \/ ToolSearch /\ UNCHANGED <<runVars, outlineVars, searchVars, paramVars>>
    \/ ToolModify /\ UNCHANGED <<runVars, outlineVars, searchVars, paramVars>>
    \/ ToolAdd /\ UNCHANGED <<runVars, outlineVars, searchVars, paramVars>>
    \/ ToolDelete /\ UNCHANGED <<runVars, outlineVars, searchVars, paramVars>>
    \/ ToolUnknown /\ UNCHANGED <<runVars, outlineVars, searchVars, paramVars>>

InitSpecStore == RunIdle /\ OutlineIdle /\ InitStore /\ SearchIdle /\ ParamsIdle

SpecStore == InitSpecStore /\ [][NextStore]_vars

NextSearch ==
    \/ Search /\ UNCHANGED <<runVars, outlineVars, storeVars, paramVars>>

InitSpecSearch == RunIdle /\ OutlineIdle /\ StoreIdle /\ InitSearch /\ ParamsIdle

SpecSearch == InitSpecSearch /\ [][NextSearch]_vars

NextInsert ==
    \/ Insert /\ UNCHANGED <<runVars, outlineVars, storeVars, paramVars>>

InitSpecInsert == RunIdle /\ OutlineIdle /\ StoreIdle /\ InitInsert /\ ParamsIdle

SpecInsert == InitSpecInsert /\ [][NextInsert]_vars

NextParams ==
    \/ Normalize /\ UNCHANGED <<runVars, outlineVars, storeVars, searchVars>>
    \/ Extract /\ UNCHANGED <<runVars, outlineVars, storeVars, searchVars>>

InitSpecParams == RunIdle /\ OutlineIdle /\ StoreIdle /\ SearchIdle /\ InitParams

SpecParams == InitSpecParams /\ [][NextParams]_vars

NextIntent ==
    \/ AnalyzeIntent /\ UNCHANGED <<runVars, outlineVars, storeVars, searchVars>>

InitSpecIntent == RunIdle /\ OutlineIdle /\ StoreIdle /\ SearchIdle /\ InitIntent

SpecIntent == InitSpecIntent /\ [][NextIntent]_vars

NextParse ==
    \/ Parse /\ UNCHANGED <<runVars, outlineVars, storeVars, searchVars>>

InitSpecParse == RunIdle /\ OutlineIdle /\ StoreIdle /\ SearchIdle /\ InitParse

SpecParse == InitSpecParse /\ [][NextParse]_vars

(***************************************************************************)
(* The claims.                                                             *)
(***************************************************************************)
Terminal(e) == e.type \in {"complete", "error"}
CountEvents(q, type) == Len(SelectSeq(q, LAMBDA e : e.type = type))
CountTerminal(q) == Len(SelectSeq(q, Terminal))
IsStatus(e, phase) == e.type = "status" /\ e.phase = phase

\* C1: every run emits exactly one terminal event (complete or error): never
\* two, and a finished run never none.
C1_ExactlyOneTerminalEvent ==
    /\ CountTerminal(events) <= 1
    /\ pc = "done" => CountTerminal(events) = 1

\* C2: a finished run's last event is a terminal event, whichever gateway call
\* failed, and no event follows a terminal event.
C2_TerminalEventIsLast ==
    /\ pc = "done" => events # <<>> /\ Terminal(events[Len(events)])
    /\ \A i \in 1..(Len(events) - 1) : ~Terminal(events[i])

\* C3: for every paragraph_count in 3..12 and every answer to the outline call,
\* the outline build_outline stores has exactly paragraph_count entries.
C3_OutlineHasParagraphCountEntries ==
    o_out.done => Len(o_out.outline) = o_in.count

\* C3's case: an object wrapping a list longer than paragraph_count was cut.
C3_Witness ==
    /\ o_out.done
    /\ o_in.reply.kind = "wrapped"
    /\ Len(o_in.reply.items) > o_in.count

\* C4: while no gateway call has failed, the drafting loop goes on exactly while
\* fewer sections than outline entries are completed, and at the transition to
\* compile write_section has run paragraph_count times and
\* len(completed_sections) = len(outline) = paragraph_count.
C4_DraftingRunsParagraphCountTimes ==
    /\ wf_state.node = "write_section" =>
          /\ wf_state.writes = Len(wf_state.completed_sections)
          /\ Len(wf_state.completed_sections) < Len(wf_state.outline)
    /\ wf_state.node = "compile" =>
          /\ wf_state.writes = paragraph_count
          /\ Len(wf_state.completed_sections) = Len(wf_state.outline)
          /\ Len(wf_state.outline) = paragraph_count

\* C4's case: a graph execution has reached the compile node after its last
\* section, with no gateway failure.
C4_Witness ==
    /\ wf_state.node = "compile"
    /\ failed = ""
    /\ paragraph_count > MinParagraphs

\* C5: after any sequence of insert, delete and modify, the paragraph at every
\* storage position p has index = p (positions counted from 0).
C5_IndexIsStoragePosition ==
    \A p \in 1..Len(StoredParagraphs) : StoredParagraphs[p].index = p - 1

\* C5's case: an insert with an index beyond the end has been applied to a
\* store that held paragraphs.
C5_Witness ==
    /\ result.tool = "add_document_paragraph"
    /\ result.index > Len(paragraphs)
    /\ Len(paragraphs) > 1

\* C6: no two stored paragraphs carry the same id, and the id an insert
\* assigns was never held by a paragraph of this store before.
C6_IdsAreNeverReused ==
    [][ /\ \A i, j \in 1..Len(paragraphs') :
              i # j => paragraphs'[i].id # paragraphs'[j].id
        /\ result'.tool = "add_document_paragraph" => result'.paragraph_id \notin issued
      ]_vars

\* C7: a call that returns a failure result leaves the stored paragraphs (ids,
\* order, index, content, text) as they were.
C7_FailureLeavesParagraphs ==
    [][ ~result'.success =>
          EnsureLoaded(paragraphs', document_content', content_type') = StoredParagraphs
      ]_vars

\* C7's case: each of the failures has been returned by a store that holds
\* paragraphs: here a delete of an unknown id.
C7_Witness ==
    /\ result.tool = "delete_document_paragraph"
    /\ result.message = "not_found"
    /\ ~result.success
    /\ Len(paragraphs) = MaxParas

\* C8: once the outline call or a drafting call has failed, the gateway is not
\* called again, and the run has emitted one error event and no complete event.
C8_GatewayFailureIsFatal ==
    [][ /\ failed \in {"outline", "draft"} => calls' = calls
        /\ failed' \in {"outline", "draft"} =>
              /\ CountEvents(events', "error") = 1
              /\ CountEvents(events', "complete") = 0
      ]_vars

StateRank(st) == CASE st = "upcoming" -> 0 [] st = "active" -> 1 [] OTHER -> 2

\* C9: no stage of the timeline ever moves backward, and whenever a stage is
\* active every earlier stage is complete.
C9_TimelineIsMonotonic ==
    [][ /\ \A i \in Stages : StateRank(timeline'[i]) >= StateRank(timeline[i])
        /\ \A i \in Stages : timeline'[i] = "active" =>
              \A j \in 0..(i - 1) : timeline'[j] = "complete"
      ]_vars

PhaseRank(phase) ==
    CASE phase = "intent" -> 1 [] phase = "parameterizing" -> 2 [] phase = "outlining" -> 3
      [] phase = "writing" -> 4 [] OTHER -> 5

\* C10: the phases of successive status events never go back; the parameters
\* event lies after the parameterizing status and before the outlining status;
\* and no section_progress, article_draft or writing status follows a
\* delivering status or a complete event.
C10_EventsFollowStageOrder ==
    /\ \A i, j \in 1..Len(events) :
          i < j /\ events[i].type = "status" /\ events[j].type = "status" =>
             PhaseRank(events[i].phase) <= PhaseRank(events[j].phase)
    /\ \A k \in 1..Len(events) :
          /\ events[k].type = "parameters" =>
                /\ \E i \in 1..(k - 1) : IsStatus(events[i], "parameterizing")
                /\ \A i \in 1..(k - 1) : ~IsStatus(events[i], "outlining")
          /\ IsStatus(events[k], "outlining") =>
                \E i \in 1..(k - 1) : events[i].type = "parameters"
    /\ \A i, j \in 1..Len(events) :
          i < j /\ (IsStatus(events[i], "delivering") \/ events[i].type = "complete") =>
             /\ events[j].type \notin {"section_progress", "article_draft"}
             /\ ~IsStatus(events[j], "writing")

\* C10's case: a run that drafted every section has gone on to deliver.
C10_Witness ==
    /\ pc = "done"
    /\ CountEvents(events, "section_progress") = paragraph_count
    /\ CountEvents(events, "complete") > 0
    /\ \E i \in 1..Len(events) : IsStatus(events[i], "delivering")

\* The number of section_progress events among the first i events.
ProgressCount(q, i) == CountEvents(SubSeq(q, 1, i), "section_progress")

\* C11: before a complete event there are exactly paragraph_count
\* section_progress events; the k-th carries current = k, total =
\* paragraph_count and the title and content of the k-th drafted section, and
\* the event after it is an article_draft rendering sections 1..k.
C11_SectionProgressPerSection ==
    \A c \in 1..Len(events) :
        events[c].type = "complete" =>
            /\ ProgressCount(events, c - 1) = paragraph_count
            /\ \A i \in 1..(c - 1) :
                  events[i].type = "section_progress" =>
                      LET k == ProgressCount(events, i)
                      IN  /\ events[i].current = k
                          /\ events[i].total = paragraph_count
                          /\ k <= Len(drafted_sections)
                          /\ events[i].title = drafted_sections[k].title
                          /\ events[i].content = drafted_sections[k].content
                          /\ events[i + 1].type = "article_draft"
                          /\ events[i + 1].html =
                                build_html_from_sections(Take(drafted_sections, k))

\* C12: the k-th execution of write_section appends exactly one section, titled
\* as outline entry k, and keeps the k-1 sections before it in place, unchanged.
C12_CompletedSectionsAppendOnly ==
    [][ wf_state'.writes = wf_state.writes + 1 =>
          LET k == wf_state'.writes
          IN  /\ Len(wf_state'.completed_sections) = k
              /\ Len(wf_state.completed_sections) = k - 1
              /\ SubSeq(wf_state'.completed_sections, 1, k - 1) = wf_state.completed_sections
              /\ wf_state'.completed_sections[k].title = wf_state.outline[k].title
      ]_vars

\* C12's case: a third section has been appended, under a title and with a
\* text other than the first section's.
C12_Witness ==
    /\ wf_state.writes = 3
    /\ Len(wf_state.completed_sections) = 3
    /\ wf_state.outline[1].title # wf_state.outline[3].title
    /\ wf_state.completed_sections[1].content # wf_state.completed_sections[3].content

IsRefusal(e) == e.type = "error" /\ e.reason \in Reasons

\* C14: when the classifier says no, the run ends at once: the refusal is its
\* only terminal event and its last event, the classifier's call is the only
\* gateway call, and no parameters, section_progress or complete event exists.
C14_RefusalEndsTheRun ==
    \A i \in 1..Len(events) :
        IsRefusal(events[i]) =>
            /\ pc = "done"
            /\ i = Len(events)
            /\ calls = 1
            /\ CountTerminal(events) = 1
            /\ \A j \in 1..Len(events) :
                  events[j].type \notin {"parameters", "section_progress", "complete"}

\* C14's case: a run has been refused.
C14_Witness ==
    /\ pc = "done"
    /\ events # <<>>
    /\ IsRefusal(events[Len(events)])
    /\ events[Len(events)].reason = "not a writing task"

\* The matches a search returned for paragraph p.
MatchesFor(p) == SelectSeq(s_out.result.matches, LAMBDA m : m.paragraph_id = p.id)

\* The search returned p once, with this score and match type.
Scored(p, score, type) ==
    /\ Len(MatchesFor(p)) = 1
    /\ MatchesFor(p)[1].relevance_score = score
    /\ MatchesFor(p)[1].match_type = type

\* The search did not return p.
Absent(p) == MatchesFor(p) = <<>>

SearchedParagraphs == {s_in.paragraphs[i] : i \in 1..Len(s_in.paragraphs)}

\* The lower-cased query is a substring of the paragraph's lower-cased text.
ExactApplies(q, p) == Contains(Lower(p.text), QueryLower(q))

\* The query words longer than one character, and those among them that occur
\* in the paragraph's text.
LongWords(q) == SetOf(QueryWords(q))
WordsPresent(q, p) == {w \in LongWords(q) : Contains(Lower(p.text), w)}

\* The fixed scores of the tiers exact, all_words and heading.
TierScoresAreFixed ==
    \A i \in 1..Len(s_out.result.matches) :
        LET m == s_out.result.matches[i]
        IN  /\ m.match_type = "exact" => m.relevance_score = 100
            /\ m.match_type = "all_words" => m.relevance_score = 80
            /\ m.match_type = "heading" => m.relevance_score = 70

C16_PartialCountsDistinctWords ==
    s_out.done =>
        \A p \in SearchedParagraphs :
            /\ ~ExactApplies(s_in.query, p)
            /\ WordsPresent(s_in.query, p) # LongWords(s_in.query)
            /\ ~IsHeading(p.content)
            /\ WordsPresent(s_in.query, p) # {}
            => Scored(p, 50 + 10 * Cardinality(WordsPresent(s_in.query, p)), "partial")

RECURSIVE IsSubsequence(_, _)
\* The characters of a occur in b in order, not necessarily side by side.
IsSubsequence(a, b) ==
    IF a = <<>> THEN TRUE
    ELSE IF b = <<>> THEN FALSE
    ELSE IF Head(a) = Head(b) THEN IsSubsequence(Tail(a), Tail(b))
    ELSE IsSubsequence(a, Tail(b))

\* The number of leading query characters that can be matched in order
\* against the paragraph's text.
LeadingMatched(q, p) ==
    CHOOSE n \in 0..Len(QueryLower(q)) :
        /\ IsSubsequence(SubSeq(QueryLower(q), 1, n), Lower(p.text))
        /\ \A k \in (n + 1)..Len(QueryLower(q)) :
              ~IsSubsequence(SubSeq(QueryLower(q), 1, k), Lower(p.text))

\* C17: for a query of at least 3 characters, a paragraph, heading or not, to
\* which no tier from exact to partial applies scores 5 x the number of
\* leading query characters matched in order, with type sequence, and is left
\* out only when that number is zero.
\* Stated for the queries that have a word longer than one character, whose
\* tiers from exact to partial are settled by the words alone.
C17_SequenceTierForTheRest ==
    s_out.done /\ Len(QueryLower(s_in.query)) >= 3 =>
        \A p \in SearchedParagraphs :
            ~ExactApplies(s_in.query, p) /\ WordsPresent(s_in.query, p) = {}
            /\ LongWords(s_in.query) # {}
            => IF LeadingMatched(s_in.query, p) = 0
               THEN Absent(p)
               ELSE Scored(p, 5 * LeadingMatched(s_in.query, p), "sequence")

\* C18: the matches are in order of non-increasing score, equal scores in the
\* order of their paragraphs in the store, and no match has score 0.
C18_MatchesSortedStable ==
    s_out.done =>
        /\ \A i, j \in 1..Len(s_out.result.matches) :
              i < j =>
                 LET a == s_out.result.matches[i]
                     b == s_out.result.matches[j]
                 IN  /\ a.relevance_score >= b.relevance_score
                     /\ a.relevance_score = b.relevance_score =>
                           a.paragraph_index < b.paragraph_index
        /\ \A i \in 1..Len(s_out.result.matches) : s_out.result.matches[i].relevance_score > 0
        /\ \A p \in SearchedParagraphs : Len(MatchesFor(p)) <= 1

\* C18's case: the sort has moved the second paragraph ahead of the first.
C18_Witness ==
    /\ s_out.done
    /\ Len(s_out.result.matches) = 2
    /\ s_out.result.matches[1].paragraph_index > s_out.result.matches[2].paragraph_index

\* C19: no match of a tier below exact has a score of 100 or more, and exact
\* matches precede every other match.
C19_ExactIsHighest ==
    s_out.done =>
        /\ \A i \in 1..Len(s_out.result.matches) :
              s_out.result.matches[i].match_type # "exact" =>
                 s_out.result.matches[i].relevance_score < 100
        /\ \A i, j \in 1..Len(s_out.result.matches) :
              i < j /\ s_out.result.matches[j].match_type = "exact" =>
                 s_out.result.matches[i].match_type = "exact"

\* C20: when some stored paragraph has exactly the requested id, modify changes
\* that paragraph and no paragraph with another id, whatever ids differ from
\* the requested one only by letter case.
C20_ExactIdBeforeCaseInsensitive ==
    [][ /\ result'.tool = "modify_document_paragraph"
        /\ result'.success
        /\ \E i \in 1..Len(StoredParagraphs) : StoredParagraphs[i].id = result'.paragraph_id
        => /\ Len(paragraphs') = Len(StoredParagraphs)
           /\ \A j \in 1..Len(StoredParagraphs) :
                 StoredParagraphs[j].id # result'.paragraph_id =>
                    paragraphs'[j] = StoredParagraphs[j]
      ]_vars

\* The paragraphs the store holds after the step, loaded or not yet.
StoredParagraphsAfter == EnsureLoaded(paragraphs', document_content', content_type')

\* C21: a modify with a non-empty id that matches no stored paragraph, exactly
\* or up to letter case, returns a failure result whose available_ids are all
\* the stored ids in storage order.
C21_ModifyNotFoundListsIds ==
    [][ /\ result'.tool = "modify_document_paragraph"
        /\ result'.paragraph_id # <<>>
        /\ \A i \in 1..Len(StoredParagraphs) :
              Lower(StoredParagraphs[i].id) # Lower(result'.paragraph_id)
        => /\ ~result'.success
           /\ result'.available_ids =
                 [i \in 1..Len(StoredParagraphs) |-> StoredParagraphs[i].id]
           /\ StoredParagraphsAfter = StoredParagraphs
      ]_vars

\* C21's case: para-99 was not found in a full store.
C21_Witness ==
    /\ result.tool = "modify_document_paragraph"
    /\ result.message = "not_found"
    /\ result.paragraph_id = UnknownId
    /\ Len(result.available_ids) = MaxParas

\* C22: a successful modify leaves the number and order of the paragraphs, the
\* resolved paragraph's id and index and every other paragraph as they were,
\* and its result carries the updated sequence.
C22_ModifyChangesOneParagraph ==
    [][ result'.tool = "modify_document_paragraph" /\ result'.success
        => /\ Len(paragraphs') = Len(StoredParagraphs)
           /\ \E k \in 1..Len(StoredParagraphs) :
                 /\ Lower(StoredParagraphs[k].id) = Lower(result'.paragraph_id)
                 /\ paragraphs'[k].id = StoredParagraphs[k].id
                 /\ paragraphs'[k].index = StoredParagraphs[k].index
                 /\ \A j \in 1..Len(StoredParagraphs) :
                       j # k => paragraphs'[j] = StoredParagraphs[j]
           /\ result'.updated_paragraphs = paragraphs'
      ]_vars

\* C22's case: the second of two paragraphs has been given a new content.
C22_Witness ==
    /\ result.tool = "modify_document_paragraph"
    /\ result.success
    /\ Len(paragraphs) = 2
    /\ paragraphs[2].content = ContentBare
    /\ paragraphs[1].content # ContentBare

\* C23: a delete with an id no stored paragraph carries returns a failure
\* result that lists all the stored ids, and removes nothing.
C23_DeleteNotFoundListsIds ==
    [][ /\ result'.tool = "delete_document_paragraph"
        /\ \A i \in 1..Len(StoredParagraphs) : StoredParagraphs[i].id # result'.paragraph_id
        => /\ ~result'.success
           /\ result'.available_ids =
                 [i \in 1..Len(StoredParagraphs) |-> StoredParagraphs[i].id]
           /\ StoredParagraphsAfter = StoredParagraphs
      ]_vars

FiveToolNames ==
    { "get_document_paragraphs", "search_document_paragraphs", "modify_document_paragraph",
      "add_document_paragraph", "delete_document_paragraph" }

\* C25: a dispatch on a name other than the five tool names returns a failure
\* result that names the tool and lists the five names, and leaves the store
\* untouched; whatever touches the store is one of the five tools.
C25_UnknownToolIsRefused ==
    [][ /\ result'.tool \notin FiveToolNames =>
              /\ ~result'.success
              /\ result'.message = "unknown_tool"
              /\ Len(result'.valid_tools) = 5
              /\ SetOf(result'.valid_tools) = FiveToolNames
              /\ <<paragraphs', document_content', content_type'>> =
                    <<paragraphs, document_content, content_type>>
        /\ <<paragraphs', document_content'>> # <<paragraphs, document_content>> =>
              result'.tool \in FiveToolNames
      ]_vars

\* C25's case: the name "none" was dispatched on a store holding paragraphs.
C25_Witness ==
    /\ result.tool = "none"
    /\ result.message = "unknown_tool"
    /\ Len(paragraphs) > 0

\* Every paragraph's text is its content with the markup tags removed.
TextIsContentWithoutTags(ps) ==
    \A i \in 1..Len(ps) : ps[i].text = StripTagsFrom(ps[i].content, 1)

\* Every paragraph's text is its content with the markup tags removed and the
\* white space at both ends trimmed.
TextIsTrimmedContentWithoutTags(ps) ==
    \A i \in 1..Len(ps) : ps[i].text = Strip(StripTagsFrom(ps[i].content, 1))

\* C26: if every paragraph's text is its content with all markup tags removed
\* before a modify, insert or delete, the same holds afterwards.
C26_TextFollowsContent ==
    [][ TextIsContentWithoutTags(StoredParagraphs) =>
           TextIsContentWithoutTags(StoredParagraphsAfter) ]_vars

\* C26, amended: the text is the content with the tags removed and then trimmed.
C26_TextFollowsContentTrimmed ==
    [][ TextIsTrimmedContentWithoutTags(StoredParagraphs) =>
           TextIsTrimmedContentWithoutTags(StoredParagraphsAfter) ]_vars

\* C26's case: a paragraph was given a content that starts with a space.
C26_Witness ==
    /\ result.tool \in {"modify_document_paragraph", "add_document_paragraph"}
    /\ result.success
    /\ \E i \in 1..Len(paragraphs) :
          paragraphs[i].content = ContentBare /\ paragraphs[i].text = <<"b">>

\* The number inside lo..hi nearest to v.
Nearest(v, lo, hi) == IF v < lo THEN lo ELSE IF v > hi THEN hi ELSE v

\* The call returned parameters.
Returned == n_out.done /\ ~n_out.raised

\* C27: whenever normalize_parameters returns, paragraph_count is in 3..12,
\* temperature in 0..1.5, max_tokens in 600..4000 and keywords is a list; the
\* input {paragraph_count: 1, temperature: 3.0, max_tokens: 100, keywords: "x"}
\* gives 3, 1.5, 600 and the empty list.
C27_NormalizedParametersInRange ==
    Returned =>
        /\ n_out.params.paragraph_count \in 3..12
        /\ n_out.params.temperature \in 0..15
        /\ n_out.params.max_tokens \in 600..4000
        /\ n_out.params.keywords.t = "list"
        /\ ( /\ n_in.raw.paragraph_count = JInt(1)
             /\ n_in.raw.temperature = JFloat(30)
             /\ n_in.raw.max_tokens = JInt(100)
             /\ n_in.raw.keywords = JStr(<<"x">>)
             => /\ n_out.params.paragraph_count = 3
                /\ n_out.params.temperature = 15
                /\ n_out.params.max_tokens = 600
                /\ n_out.params.keywords.l = <<>> )

\* C27's case: normalize_parameters has returned for the input of the example.
C27_Witness ==
    /\ Returned
    /\ n_out.by = "normalize_parameters"
    /\ n_in.raw.paragraph_count = JInt(1)
    /\ n_in.raw.temperature = JFloat(30)
    /\ n_in.raw.max_tokens = JInt(100)
    /\ n_in.raw.keywords = JStr(<<"x">>)
    /\ n_in.raw.segments = JAbsent

\* C28: a numeric field inside its range (paragraph_count 3..12, temperature
\* 0..1.5 with 0, max_tokens 600..4000) is returned unchanged, one outside is
\* moved to the nearest bound, and a missing field gets the default 5, 0.7 or
\* 1200.
C28_NormalizationOnlyClamps ==
    Returned =>
        /\ n_in.raw.paragraph_count.t = "int" =>
              n_out.params.paragraph_count = Nearest(n_in.raw.paragraph_count.n, 3, 12)
        /\ n_in.raw.temperature.t = "float" =>
              n_out.params.temperature = Nearest(n_in.raw.temperature.n, 0, 15)
        /\ n_in.raw.temperature.t = "int" =>
              n_out.params.temperature = Nearest(10 * n_in.raw.temperature.n, 0, 15)
        /\ n_in.raw.max_tokens.t = "int" =>
              n_out.params.max_tokens = Nearest(n_in.raw.max_tokens.n, 600, 4000)
        /\ n_in.raw.paragraph_count.t = "absent" /\ n_in.raw.segments.t = "absent" =>
              n_out.params.paragraph_count = 5
        /\ n_in.raw.temperature.t = "absent" => n_out.params.temperature = 7
        /\ n_in.raw.max_tokens.t = "absent" => n_out.params.max_tokens = 1200

\* A text that is not a numeral.
NonNumericText(x) ==
    x.t = "str" /\ \E i \in 1..Len(x.s) : x.s[i] \notin {"0", "1", "2", "3", "4", "5", "6", "7", "8", "9", ".", " "}

\* C29: extract_writer_parameters raises on no model response, and returns
\* the defaults for text it cannot parse, for a JSON array, and in place of a
\* paragraph_count, temperature or max_tokens that is non-numeric text.
C29_ExtractionNeverFails ==
    n_out.done /\ n_out.by = "extract_writer_parameters" =>
        /\ ~n_out.raised
        /\ n_in.kind \in {"unparseable", "array"} =>
              /\ n_out.params.paragraph_count = 5
              /\ n_out.params.temperature = 7
              /\ n_out.params.max_tokens = 1200
        /\ NonNumericText(n_in.raw.paragraph_count) /\ n_in.raw.segments.t = "absent" =>
              n_out.params.paragraph_count = 5
        /\ NonNumericText(n_in.raw.temperature) => n_out.params.temperature = 7
        /\ NonNumericText(n_in.raw.max_tokens) => n_out.params.max_tokens = 1200

RECURSIVE TrimmedNonEmpty(_)
\* The texts of the elements, trimmed, without those that are then empty.
TrimmedNonEmpty(elements) ==
    IF elements = <<>> THEN <<>>
    ELSE (IF Strip(Head(elements).s) = <<>> THEN <<>> ELSE <<Strip(Head(elements).s)>>)
         \o TrimmedNonEmpty(Tail(elements))

\* C30: the normalized keywords are the input list's elements in order, each
\* trimmed, none of them empty (an empty or white-space element is dropped);
\* an input that is not a list gives the empty list.
C30_KeywordsTrimmedNonEmpty ==
    Returned =>
        /\ \A i \in 1..Len(n_out.params.keywords.l) : n_out.params.keywords.l[i] # <<>>
        /\ n_in.raw.keywords.t # "list" => n_out.params.keywords.l = <<>>
        /\ ( /\ n_in.raw.keywords.t = "list"
             /\ \A i \in 1..Len(n_in.raw.keywords.l) : n_in.raw.keywords.l[i].t = "str"
             => n_out.params.keywords.l = TrimmedNonEmpty(n_in.raw.keywords.l) )

\* The model answered the outline call with a list, bare or wrapped.
ListedReply == o_in.reply.kind \in {"array", "wrapped"}

\* C32: when the model returns at least one but fewer than paragraph_count
\* entries, the entry that padding adds at 1-based position n has the
\* placeholder title numbered n and the topic as summary.
C32_PaddingNumberedByPosition ==
    /\ o_out.done
    /\ ListedReply
    /\ Len(o_in.reply.items) >= 1
    /\ Len(o_in.reply.items) < o_in.count
    => \A n \in (Len(o_in.reply.items) + 1)..o_in.count :
          /\ o_out.outline[n].title = "Section " \o ToString(n)
          /\ o_out.outline[n].summary = Topic

\* C33: every entry of the outline has a text title and a text summary; an
\* element of the model's list that is no object, or whose title or summary is
\* missing, null or empty, gets the placeholder title numbered by its position
\* and/or the topic as summary.
C33_EntriesHaveTitleAndSummary ==
    o_out.done =>
        /\ \A i \in 1..Len(o_out.outline) :
              /\ o_out.outline[i].title \notin {None, ""}
              /\ o_out.outline[i].summary \notin {None, ""}
        /\ ListedReply =>
              \A i \in 1..Min(Len(o_in.reply.items), o_in.count) :
                 LET item == o_in.reply.items[i]
                 IN  /\ ~item.isdict \/ item.title \in {"absent", "null", "empty"} =>
                           o_out.outline[i].title = "Section " \o ToString(i)
                     /\ ~item.isdict \/ item.summary \in {"absent", "null", "empty"} =>
                           o_out.outline[i].summary = Topic

\* C31: when the model's response does not parse to an object (empty text,
\* unparseable text, a JSON array or another JSON value), analyze_intent
\* returns should_write = true with confidence 0.75 and the default reason and
\* does not raise.
C31_IntentFailsOpen ==
    /\ n_out.done
    /\ n_out.by = "analyze_intent"
    /\ n_in.kind \in {"empty", "unparseable", "array", "scalar"}
    => /\ ~n_out.raised
       /\ n_out.params.should_write
       /\ n_out.params.confidence = [ok |-> TRUE, kind |-> "num", v |-> 75]
       /\ n_out.params.reason.s = DefaultReason

\* The text is one that holds no fence.
FenceFree(chars) ==
    \A i \in 1..Len(chars) : chars[i] # Tick

\* C34: parse_json_block returns the same payload for a JSON text given plain,
\* in a ```json fence or in a ``` fence, and the empty object when the text is
\* empty or cannot be parsed.
C34_FencesAreTransparent ==
    n_out.done /\ n_out.by = "parse_json_block" =>
        /\ ~n_out.raised
        /\ n_in.kind \in {"plain", "json_fence", "fence"} /\ n_in.raw \in JsonTexts =>
              n_out.params = n_in.raw
        /\ n_in.kind = "plain" /\ n_in.raw \notin JsonTexts =>
              n_out.params = <<"{", "}">>

\* For the JSON texts that hold no fence themselves the three forms do parse
\* alike, and every text that is no JSON gives the empty object.
FenceFreeTextsParseAlike ==
    n_out.done /\ n_out.by = "parse_json_block" =>
        /\ ~n_out.raised
        /\ /\ n_in.kind \in {"plain", "json_fence", "fence"}
           /\ n_in.raw \in JsonTexts
           /\ FenceFree(n_in.raw)
           => n_out.params = n_in.raw
        /\ n_in.raw \notin JsonTexts => n_out.params = <<"{", "}">>

\* C35: in every workflow state, the one left by the compile node's return
\* through the reducer included, completed_sections is no longer than the
\* outline.
C35_CompletedSectionsWithinOutline ==
    Len(wf_state.completed_sections) <= Len(wf_state.outline)

IsSectionProgress(e) == e.type = "section_progress"
IsComplete(e) == e.type = "complete"

\* The sections the run's section_progress events have reported, in order.
ReportedSections ==
    LET reported == SelectSeq(events, IsSectionProgress)
    IN  [i \in 1..Len(reported) |-> [title |-> reported[i].title, content |-> reported[i].content]]

\* C36: a run executes the workflow graph at most once; a run that has ended
\* with complete has called the gateway 3 + paragraph_count times, and the
\* article of its complete event is made of the sections its section_progress
\* events reported.
C36_GraphExecutedOnce ==
    /\ executions <= 1
    /\ pc = "done" /\ SelectSeq(events, IsComplete) # <<>> =>
          /\ calls = 3 + paragraph_count
          /\ \A i \in 1..Len(events) :
                IsComplete(events[i]) =>
                   events[i].html = build_html_from_sections(ReportedSections)

\* The store was built from an HTML string and a delete has just removed its
\* last paragraph.
EmptiedHtmlStore ==
    /\ content_type = "html"
    /\ paragraphs = <<>>
    /\ result.tool = "delete_document_paragraph"
    /\ result.success

\* C37: in a store initialised from an HTML string, once every paragraph has
\* been deleted the next operation works on an empty sequence: list returns no
\* paragraph, insert assigns the id of count 0 and leaves one paragraph, and
\* modify and delete find nothing.
C37_DeletedParagraphsStayDeleted ==
    [][ EmptiedHtmlStore =>
           /\ result'.tool = "get_document_paragraphs" => result'.updated_paragraphs = <<>>
           /\ result'.tool = "add_document_paragraph" =>
                 /\ result'.paragraph_id = <<"p", "a", "r", "a", "-", "0">>
                 /\ Len(paragraphs') = 1
           /\ result'.tool \in {"modify_document_paragraph", "delete_document_paragraph"} =>
                 ~result'.success
      ]_vars

\* C38: for every store state and every id, delete(id) succeeds exactly when
\* modify(id, c) would, and both act on the same paragraph.
C38_ModifyAndDeleteResolveAlike ==
    \A paragraph_id \in RequestIds :
        LET deleted == delete_document_paragraph(paragraphs, document_content,
                                                 content_type, paragraph_id)
            modified == modify_document_paragraph(paragraphs, document_content,
                                                  content_type, paragraph_id, ContentBare)
        IN  /\ deleted.result.success = modified.result.success
            /\ deleted.result.success =>
                  \E k \in 1..Len(StoredParagraphs) :
                     /\ Len(deleted.paragraphs) = Len(StoredParagraphs) - 1
                     /\ \A j \in 1..(k - 1) : deleted.paragraphs[j].id = StoredParagraphs[j].id
                     /\ \A j \in k..Len(deleted.paragraphs) :
                           deleted.paragraphs[j].id = StoredParagraphs[j + 1].id
                     /\ FindForModify(StoredParagraphs, paragraph_id) = k

\* The paragraph without its index field.
Unindexed(p) == [id |-> p.id, content |-> p.content, text |-> p.text]

\* C39: insert(i, content) on a store of N paragraphs with 0 <= i <= N puts
\* the new paragraph at storage position i, makes the length N + 1 and leaves
\* the N paragraphs in their order with id, content and text unchanged.
C39_InsertAddsOneParagraph ==
    /\ s_out.done
    /\ s_out.result.tool = "add_document_paragraph"
    /\ 0 <= s_in.index
    /\ s_in.index <= Len(s_in.paragraphs)
    => LET old == s_in.paragraphs
           new == s_out.result.updated_paragraphs
           i == s_in.index
       IN  /\ s_out.result.success
           /\ Len(new) = Len(old) + 1
           /\ new[i + 1].id = s_out.result.paragraph_id
           /\ new[i + 1].content = s_in.content
           /\ \A j \in 1..i : Unindexed(new[j]) = Unindexed(old[j])
           /\ \A j \in (i + 1)..Len(old) : Unindexed(new[j + 1]) = Unindexed(old[j])

\* C39's case: a paragraph was inserted between the first and the last of
\* three.
C39_Witness ==
    /\ s_out.done
    /\ s_out.result.tool = "add_document_paragraph"
    /\ Len(s_in.paragraphs) = 3
    /\ s_in.index = 1
    /\ s_out.result.updated_paragraphs[2].content = s_in.content
    /\ s_out.result.updated_paragraphs[4].id = s_in.paragraphs[3].id

\* C40: a query without any character that is not white space is handled like
\* the empty query: the search fails with the empty-query message and reports
\* no paragraph, so none as an exact match of score 100.
C40_BlankQueryIsEmptyQuery ==
    /\ s_out.done
    /\ s_out.result.tool = "search_document_paragraphs"
    /\ \A i \in 1..Len(s_in.query) : s_in.query[i] \in {" ", "\n"}
    => /\ ~s_out.result.success
       /\ s_out.result.message = "empty_query"
       /\ s_out.result.matches = <<>>

====
